---- MODULE Spec2Model ----
(***************************************************************************)
(* Collections feature: the collection tree (CollectionDAO over the        *)
(* sp_collection table) and the item links with their cached item_count.   *)
(*                                                                         *)
(* The relational store is modelled with the constraints the schema        *)
(* declares (unique slug, parent_id foreign key, one unique constraint per *)
(* link table, link foreign keys): a commit that would violate one raises  *)
(* IntegrityError and the handler's rollback leaves the tables as they     *)
(* were.  Every DAO call runs in a session of its own, as under the HTTP   *)
(* layer, except in SpecSession, where successive calls share the scoped   *)
(* session.  Strings are sequences of one-character strings.               *)
(*                                                                         *)
(* Also modelled: the batch item handlers of the REST API, the permission  *)
(* record's validator, update_item_counts, concurrent add/remove and move  *)
(* requests (commits applied in order, as under READ COMMITTED), and the   *)
(* safety checks the LLM provider applies to generated SQL.                *)
(***************************************************************************)
EXTENDS Integers, Sequences, FiniteSets, TLC

VARIABLES cols, links, nextId, res, req, txn, perm, llm

vars == <<cols, links, nextId, res, req, txn, perm, llm>>

(* ------------------------------ bounds -------------------------------- *)

\* collections the tree specification creates
MaxId == 3
\* collections the slug specification creates
MaxSlugCols == 2
\* collections the membership specification creates
MaxItemCols == 2
\* link rows the membership specification lets the store hold at once
MaxLinks == 2
\* create_collection calls in flight at once in the race specification
NumRequests == 2
\* collections in the stores the stepwise delete specification starts from
MaxDeleteCols == 3
\* collections the tree-read specification creates
MaxTreeCols == 3
\* collections the deep-chain specification creates
MaxDeepCols == 12

\* roles that get a permission record on the collection
MaxRoles == 3

\* items in one batch request
MaxBatch == 2

\* collections in the table has_cycle_with_parent walks
MaxWalkCols == 3

\* collections in the tables update_item_counts repairs
MaxCountCols == 2

(* --------------------------- program values --------------------------- *)

\* Python's None for an integer argument or column
Null == -1
\* Python's None for a string argument or column
Unset == <<"None">>

MAX_COLLECTION_NAME_LENGTH == 255
MAX_COLLECTION_SLUG_LENGTH == 255
MAX_COLLECTION_DESCRIPTION_LENGTH == 1000
MAX_TREE_DEPTH == 10

CollectionItemType == {"dashboard", "chart", "dataset"}

\* Python truthiness of an Optional[int]: None and 0 are falsy
Truthy(n) == n # Null /\ n # 0

(* ------------------------------ strings ------------------------------- *)

Letter == <<"a", "b", "c", "d", "e", "f">>
UpperOf == <<"A", "B", "C", "D", "E", "F">>

\* str.lower() on one character
LowerChar(ch) ==
  IF \E i \in 1..Len(UpperOf) : UpperOf[i] = ch
  THEN Letter[CHOOSE i \in 1..Len(UpperOf) : UpperOf[i] = ch]
  ELSE ch

Lower(s) == [i \in 1..Len(s) |-> LowerChar(s[i])]

\* str.strip(): drop leading and trailing whitespace
Strip(s) ==
  LET keep == {i \in 1..Len(s) : s[i] # " "}
  IN IF keep = {} THEN <<>>
     ELSE SubSeq(s, CHOOSE i \in keep : \A j \in keep : i <= j,
                    CHOOSE i \in keep : \A j \in keep : j <= i)

\* one character of the class [a-z0-9-_]
SlugChar(ch) ==
  \/ \E i \in 1..Len(Letter) : Letter[i] = ch
  \/ ch \in {"0", "1", "-", "_"}

\* re.match(r"^[a-z0-9-_]+$", s)
SlugPattern(s) == Len(s) >= 1 /\ \A i \in 1..Len(s) : SlugChar(s[i])

(* @validates("slug"): the normalised slug, or ValueError *)
validate_slug(slug) ==
  IF slug = Unset \/ slug = <<>> \/ Strip(slug) = <<>>
  THEN [ok |-> FALSE, val |-> slug]
  ELSE LET s == Lower(Strip(slug))
       IN IF ~SlugPattern(s) THEN [ok |-> FALSE, val |-> slug]
          ELSE IF Len(s) > MAX_COLLECTION_SLUG_LENGTH
               THEN [ok |-> FALSE, val |-> slug]
               ELSE [ok |-> TRUE, val |-> s]

(* @validates("name"): the trimmed name, or ValueError *)
validate_name(name) ==
  IF name = Unset \/ name = <<>> \/ Strip(name) = <<>>
  THEN [ok |-> FALSE, val |-> name]
  ELSE LET n == Strip(name)
       IN IF Len(n) > MAX_COLLECTION_NAME_LENGTH
          THEN [ok |-> FALSE, val |-> name]
          ELSE [ok |-> TRUE, val |-> n]

\* len(description) of the descriptions the model passes in
DescLen(description) ==
  IF description = <<"long">> THEN MAX_COLLECTION_DESCRIPTION_LENGTH + 1
  ELSE Len(description)

(* @validates("description") *)
validate_description(description) ==
  IF description # Unset /\ description # <<>>
     /\ DescLen(description) > MAX_COLLECTION_DESCRIPTION_LENGTH
  THEN [ok |-> FALSE, val |-> description]
  ELSE [ok |-> TRUE, val |-> description]

(* @validates("parent_id") on the row with primary key selfId *)
validate_parent_id(selfId, parent_id) ==
  IF parent_id # Null /\ selfId # Null /\ parent_id = selfId
  THEN [ok |-> FALSE, val |-> parent_id]
  ELSE [ok |-> TRUE, val |-> parent_id]

(* ------------------------------ the store ----------------------------- *)

\* the rows of sp_collection in table c
Ids(c) == DOMAIN c

find_by_id(c, id) == id \in Ids(c)

\* ids whose slug column equals the argument as given
find_by_slug(c, slug) == {i \in Ids(c) : c[i].slug = slug}

find_children(c, parent_id) == {i \in Ids(c) : c[i].parent_id = parent_id}

\* the three link tables as one bag of <<collection_id, item_type, item_id>>
LinkRows(l, link) == IF link \in DOMAIN l THEN l[link] ELSE 0

AddLink(l, link) ==
  [k \in DOMAIN l \cup {link} |-> LinkRows(l, k) + (IF k = link THEN 1 ELSE 0)]

DelLink(l, link) ==
  LET dom == {k \in DOMAIN l : k # link \/ l[k] > 1}
  IN [k \in dom |-> l[k] - (IF k = link THEN 1 ELSE 0)]

RECURSIVE SumOver(_, _)
SumOver(l, s) ==
  IF s = {} THEN 0
  ELSE LET k == CHOOSE x \in s : TRUE IN l[k] + SumOver(l, s \ {k})

\* len(dashboard_links) + len(chart_links) + len(dataset_links) of collection id
total_item_count(l, id) == SumOver(l, {k \in DOMAIN l : k[1] = id})

TotalLinks(l) == SumOver(l, DOMAIN l)

\* rows of the item catalog the link tables' foreign keys point at
Catalog == CollectionItemType \X {1, 42}

(* the constraints the schema declares, checked when a session commits *)
\* mutant: the slug column without its unique constraint
UniqueSlug_Off(c) == TRUE

UniqueSlug(c) == \A a, b \in Ids(c) : a # b => c[a].slug # c[b].slug

\* mutant: parent_id without its foreign key
ParentForeignKey_Off(c) == TRUE

ParentForeignKey(c) ==
  \A a \in Ids(c) : c[a].parent_id # Null => c[a].parent_id \in Ids(c)

UniqueLinks(l) == \A k \in DOMAIN l : l[k] <= 1

LinkForeignKeys(c, l) ==
  \A k \in DOMAIN l : k[1] \in Ids(c) /\ <<k[2], k[3]>> \in Catalog

Constraints(c, l) ==
  /\ UniqueSlug(c)
  /\ ParentForeignKey(c)
  /\ UniqueLinks(l)
  /\ LinkForeignKeys(c, l)

(* ---------------------------- cycle check ----------------------------- *)

(* the while loop of has_cycle_with_parent *)
RECURSIVE CycleWalk(_, _, _, _)
CycleWalk(c, selfId, current_id, visited) ==
  IF ~Truthy(current_id) THEN FALSE
  ELSE IF current_id \in visited THEN TRUE
  ELSE IF current_id = selfId THEN TRUE
  ELSE CycleWalk(c, selfId,
                 IF find_by_id(c, current_id) THEN c[current_id].parent_id ELSE Null,
                 visited \cup {current_id})

\* mutant: a candidate parent that has a parent itself is taken for a cycle
has_cycle_with_parent_Strict(c, selfId, potential_parent_id) ==
  \/ potential_parent_id = selfId
  \/ find_by_id(c, potential_parent_id) /\ c[potential_parent_id].parent_id # Null

\* mutant: only the self-reference is caught, the chain is not walked
has_cycle_with_parent_SelfOnly(c, selfId, potential_parent_id) ==
  potential_parent_id = selfId

has_cycle_with_parent(c, selfId, potential_parent_id) ==
  IF potential_parent_id = selfId THEN TRUE
  ELSE CycleWalk(c, selfId, potential_parent_id, {})

\* mutant: every move is allowed
can_be_moved_to_Always(c, selfId, new_parent_id) == TRUE

can_be_moved_to(c, selfId, new_parent_id) ==
  IF new_parent_id = Null THEN TRUE
  ELSE IF new_parent_id = selfId THEN FALSE
  ELSE ~has_cycle_with_parent(c, selfId, new_parent_id)

\* mutant: the visited set is never consulted
walk_revisited_Never(current_id, visited) == FALSE

\* line 203: if current_id in visited
walk_revisited(current_id, visited) == current_id \in visited

(* --------------------------- create_collection ------------------------ *)

NewRow(name, slug, description, parent_id, is_official) ==
  [name |-> name, slug |-> slug, description |-> description,
   parent_id |-> parent_id, is_official |-> is_official, item_count |-> 0]

Insert(c, id, row) == [i \in Ids(c) \cup {id} |-> IF i = id THEN row ELSE c[i]]

\* mutant: the IntegrityError of the commit is raised as it is
create_integrity_result_Raise == "IntegrityError"

\* except IntegrityError (lines 202-206): the INSERT statement names the slug
\* column, so the error is raised as CollectionSlugExistsError
create_integrity_result == "SlugExists"

\* line 174: the slug as given is looked up
create_find_slug(c, slug) ==
  IF find_by_slug(c, slug) # {} THEN "SlugExists" ELSE "pass"

\* lines 177-195: the parent look-up, the constructor's validators, the cycle check
create_validate(c, name, slug, description, parent_id) ==
  IF Truthy(parent_id) /\ ~find_by_id(c, parent_id) THEN "NotFound"
  ELSE IF \/ ~validate_name(name).ok
          \/ ~validate_slug(slug).ok
          \/ ~validate_description(description).ok
  THEN "ValueError"
  ELSE IF Truthy(parent_id) /\ has_cycle_with_parent(c, Null, parent_id)
  THEN "CycleDetected"
  ELSE "pass"

\* lines 197-206: the insert and the commit, or the rollback
create_commit(c, l, id, name, slug, description, parent_id, is_official) ==
  LET row == NewRow(validate_name(name).val, validate_slug(slug).val,
                    validate_description(description).val, parent_id, is_official)
      after == Insert(c, id, row)
  IN IF ~Constraints(after, l)
     THEN [result |-> create_integrity_result, cols |-> c]
     ELSE [result |-> "ok", cols |-> after]

\* the outcome of create_collection on tables c, l: the result and the new table
create_collection(c, l, id, name, slug, description, parent_id, is_official) ==
  IF create_find_slug(c, slug) # "pass"
  THEN [result |-> create_find_slug(c, slug), cols |-> c]
  ELSE IF create_validate(c, name, slug, description, parent_id) # "pass"
  THEN [result |-> create_validate(c, name, slug, description, parent_id), cols |-> c]
  ELSE create_commit(c, l, id, name, slug, description, parent_id, is_official)

(* --------------------------- update_collection ------------------------ *)

\* mutant: is_official is assigned whether or not it was supplied
UpdatedRow_OfficialAlways(cur, n, s, d, name, slug, description, parent_id, is_official) ==
  [name |-> IF name # Unset THEN n.val ELSE cur.name,
   slug |-> IF slug # Unset THEN s.val ELSE cur.slug,
   description |-> IF description # Unset THEN d.val ELSE cur.description,
   parent_id |-> IF parent_id # Null THEN parent_id ELSE cur.parent_id,
   is_official |-> IF is_official # Null THEN is_official ELSE 0,
   item_count |-> cur.item_count]

\* the row after the assignments of lines 236-245, each through its validator
UpdatedRow(cur, n, s, d, name, slug, description, parent_id, is_official) ==
  [name |-> IF name # Unset THEN n.val ELSE cur.name,
   slug |-> IF slug # Unset THEN s.val ELSE cur.slug,
   description |-> IF description # Unset THEN d.val ELSE cur.description,
   parent_id |-> IF parent_id # Null THEN parent_id ELSE cur.parent_id,
   is_official |-> IF is_official # Null THEN is_official ELSE cur.is_official,
   item_count |-> cur.item_count]

\* the row when a validator raises: the assignments of lines 236-243 made before
\* the first one that raises stay on the object, the others are not reached
PartialRow(cur, n, s, d, p, name, slug, description, parent_id) ==
  LET nameFails == name # Unset /\ ~n.ok
      slugFails == slug # Unset /\ ~s.ok
      descFails == description # Unset /\ ~d.ok
  IN [name |-> IF name # Unset /\ n.ok THEN n.val ELSE cur.name,
      slug |-> IF ~nameFails /\ slug # Unset /\ s.ok THEN s.val ELSE cur.slug,
      description |-> IF ~nameFails /\ ~slugFails /\ description # Unset /\ d.ok
                      THEN d.val ELSE cur.description,
      parent_id |-> IF ~nameFails /\ ~slugFails /\ ~descFails
                       /\ parent_id # Null /\ p.ok
                    THEN parent_id ELSE cur.parent_id,
      is_official |-> cur.is_official,
      item_count |-> cur.item_count]

\* a validator raised: no except clause catches ValueError, the session keeps
\* the object as the assignments left it
session_after_raise(c, id, row) == [c EXCEPT ![id] = row]

\* the outcome of update_collection on the tables c, l its session reads: the
\* result, the table if the call's session ends here (cols), what the call did to
\* the session (end) and the session's table when it is left dirty (pending)
update_collection(c, l, id, name, slug, description, parent_id, is_official) ==
  IF ~find_by_id(c, id)
  THEN [result |-> "NotFound", cols |-> c, end |-> "none", pending |-> c]
  ELSE
  LET cur == c[id]
      n == validate_name(name)
      s == validate_slug(slug)
      d == validate_description(description)
      p == validate_parent_id(id, parent_id)
      row == UpdatedRow(cur, n, s, d, name, slug, description, parent_id, is_official)
      after == [c EXCEPT ![id] = row]
  IN IF slug # Unset /\ slug # <<>> /\ slug # cur.slug
        /\ (find_by_slug(c, slug) \ {id}) # {}
     THEN [result |-> "SlugExists", cols |-> c, end |-> "none", pending |-> c]
     ELSE IF parent_id # Null /\ parent_id # cur.parent_id
             /\ Truthy(parent_id) /\ ~can_be_moved_to(c, id, parent_id)
     THEN [result |-> "CycleDetected", cols |-> c, end |-> "none", pending |-> c]
     ELSE IF \/ name # Unset /\ ~n.ok
             \/ slug # Unset /\ ~s.ok
             \/ description # Unset /\ ~d.ok
             \/ parent_id # Null /\ ~p.ok
     THEN [result |-> "ValueError", cols |-> c, end |-> "dirty",
           pending |-> session_after_raise(c, id,
                         PartialRow(cur, n, s, d, p, name, slug, description,
                                    parent_id))]
     ELSE IF ~Constraints(after, l)
     \* except IntegrityError: rollback; SlugExists when the UPDATE sets slug
     THEN [result |-> IF row.slug # cur.slug THEN "SlugExists" ELSE "IntegrityError",
           cols |-> c, end |-> "rollback", pending |-> c]
     ELSE [result |-> "ok", cols |-> after, end |-> "commit", pending |-> after]

(* --------------------------- delete_collection ------------------------ *)

\* child.parent_id = collection.parent_id for the children in moved
Reparent(c, id, moved) ==
  [i \in Ids(c) |-> IF i \in moved THEN [c[i] EXCEPT !.parent_id = c[id].parent_id]
                    ELSE c[i]]

\* the flush of a deleted row: the children relationship (the backref of parent,
\* declared without delete cascade or passive_deletes) is loaded from the
\* committed table and each of its rows is de-associated, its parent_id cleared,
\* before the row's UPDATE is written
Deassociate(pending, committed, id) ==
  [i \in Ids(pending) |->
     IF i \in find_children(committed, id)
     THEN [pending[i] EXCEPT !.parent_id = Null] ELSE pending[i]]

\* db.session.delete(collection): the row goes
DeleteRow(c, id) == [i \in Ids(c) \ {id} |-> c[i]]

\* mutant: the cascade takes the links of every collection
CascadeLinks_All(l, id) == <<>>

\* cascade="all, delete-orphan" on the three link relationships
CascadeLinks(l, id) == [k \in {x \in DOMAIN l : x[1] # id} |-> l[k]]

delete_collection(c, l, id) ==
  IF ~find_by_id(c, id) THEN [result |-> "False", cols |-> c, links |-> l]
  ELSE
  LET children == find_children(c, id)
      afterC == DeleteRow(Deassociate(Reparent(c, id, children), c, id), id)
      afterL == CascadeLinks(l, id)
  IN IF \E ch \in children : ~validate_parent_id(ch, c[id].parent_id).ok
     THEN [result |-> "ValueError", cols |-> c, links |-> l]
     ELSE IF ~Constraints(afterC, afterL)
     THEN [result |-> "IntegrityError", cols |-> c, links |-> l]
     ELSE [result |-> "True", cols |-> afterC, links |-> afterL]

(* ------------------------------ membership ---------------------------- *)

\* mutant: the look-up ignores the item type
item_exists_in_collection_AnyType(l, collection_id, item_type, item_id) ==
  \E t \in CollectionItemType : LinkRows(l, <<collection_id, t, item_id>>) > 0

item_exists_in_collection(l, collection_id, item_type, item_id) ==
  LinkRows(l, <<collection_id, item_type, item_id>>) > 0

Max(a, b) == IF a >= b THEN a ELSE b

\* mutant: the counter is left alone
BumpCount_None(c, collection_id) == c

\* collection.item_count = collection.item_count + 1
BumpCount(c, collection_id) == [c EXCEPT ![collection_id].item_count = @ + 1]

add_item_to_collection(c, l, collection_id, item_type, item_id) ==
  IF ~find_by_id(c, collection_id)
  THEN [result |-> "NotFound", cols |-> c, links |-> l]
  ELSE IF item_exists_in_collection(l, collection_id, item_type, item_id)
  THEN [result |-> "ItemAlreadyExists", cols |-> c, links |-> l]
  ELSE
  LET afterL == AddLink(l, <<collection_id, item_type, item_id>>)
      afterC == BumpCount(c, collection_id)
  IN IF ~Constraints(afterC, afterL)
     \* except IntegrityError: rollback; the unique constraints are named uq_collection_*
     THEN [result |-> IF ~UniqueLinks(afterL) THEN "ItemAlreadyExists"
                      ELSE "IntegrityError",
           cols |-> c, links |-> l]
     ELSE [result |-> "ok", cols |-> afterC, links |-> afterL]

\* mutant: the query matches the item id in any of the three link tables
link_query_AnyType(l, collection_id, item_type, item_id) ==
  {k \in DOMAIN l : k[1] = collection_id /\ k[3] = item_id}

\* the rows link_query selects: the table of item_type, filtered by both ids
link_query(l, collection_id, item_type, item_id) ==
  {k \in DOMAIN l : k = <<collection_id, item_type, item_id>>}

\* mutant: the counter is left alone on removal
DropCount_None(c, collection_id) == c

\* collection.item_count = max(0, collection.item_count - 1)
DropCount(c, collection_id) ==
  [c EXCEPT ![collection_id].item_count = Max(0, @ - 1)]

remove_item_from_collection(c, l, collection_id, item_type, item_id) ==
  IF ~find_by_id(c, collection_id)
  THEN [result |-> "NotFound", cols |-> c, links |-> l]
  ELSE IF link_query(l, collection_id, item_type, item_id) = {}
  THEN [result |-> "ItemNotFound", cols |-> c, links |-> l]
  ELSE
  LET link == CHOOSE k \in link_query(l, collection_id, item_type, item_id) : TRUE
      afterL == DelLink(l, link)
      afterC == DropCount(c, collection_id)
  IN IF ~Constraints(afterC, afterL)
     THEN [result |-> "IntegrityError", cols |-> c, links |-> l]
     ELSE [result |-> "ok", cols |-> afterC, links |-> afterL]

(* --------------------------- update_item_counts ----------------------- *)

\* mutant: the parent is recomputed only when the collection's count changed
recurse_to_parent_IfChanged(row, changed) == Truthy(row.parent_id) /\ changed

\* lines 619-620: if collection.parent_id, whatever the comparison gave
recurse_to_parent(row, changed) == Truthy(row.parent_id)

\* the table after update_item_counts(collection_id): each write is committed
\* on its own (line 616)
RECURSIVE update_item_counts(_, _, _)
update_item_counts(c, l, collection_id) ==
  IF ~find_by_id(c, collection_id) THEN c
  ELSE LET actual_count == total_item_count(l, collection_id)
           changed == c[collection_id].item_count # actual_count
           afterC == IF changed
                     THEN [c EXCEPT ![collection_id].item_count = actual_count]
                     ELSE c
       IN IF recurse_to_parent(afterC[collection_id], changed)
          THEN update_item_counts(afterC, l, afterC[collection_id].parent_id)
          ELSE afterC

(* ------------------------------- get_tree ----------------------------- *)

\* position of a lower-case letter in the alphabet
CharRank(ch) == CHOOSE i \in 1..Len(Letter) : Letter[i] = ch

\* name a sorts strictly before name b (names of lower-case letters)
RECURSIVE NameLess(_, _)
NameLess(a, b) ==
  IF b = <<>> THEN FALSE
  ELSE IF a = <<>> THEN TRUE
  ELSE IF CharRank(Head(a)) # CharRank(Head(b))
  THEN CharRank(Head(a)) < CharRank(Head(b))
  ELSE NameLess(Tail(a), Tail(b))

\* the orders the store may return rows of equal name in
TieOrders == {"asc", "desc"}

\* row i comes before row j under ORDER BY name, equal names in the order tie
RowBefore(c, i, j, tie) ==
  \/ NameLess(c[i].name, c[j].name)
  \/ c[i].name = c[j].name /\ (IF tie = "asc" THEN i < j ELSE i > j)

\* mutant: the rows come back in primary-key order
RECURSIVE order_by_name_ById(_, _, _)
order_by_name_ById(c, ids, tie) ==
  IF ids = {} THEN <<>>
  ELSE LET first == CHOOSE i \in ids : \A j \in ids : i <= j
       IN <<first>> \o order_by_name_ById(c, ids \ {first}, tie)

\* .order_by(SpCollection.name).all() over the rows ids
RECURSIVE order_by_name(_, _, _)
order_by_name(c, ids, tie) ==
  IF ids = {} THEN <<>>
  ELSE LET first == CHOOSE i \in ids : \A j \in ids \ {i} : RowBefore(c, i, j, tie)
       IN <<first>> \o order_by_name(c, ids \ {first}, tie)

\* mutant: the query without its filter on parent_id
find_root_collections_All(c, tie) == order_by_name(c, Ids(c), tie)

find_root_collections(c, tie) ==
  order_by_name(c, {i \in Ids(c) : c[i].parent_id = Null}, tie)

\* find_children as the list the query returns
find_children_list(c, parent_id, tie) ==
  order_by_name(c, find_children(c, parent_id), tie)

\* no user argument
NoUser == "None"

\* placeholder: every collection is returned
filter_by_user_permissions(collections, user) == collections

\* placeholder: every user may access every collection
user_can_access_collection(user, id) == TRUE

\* mutant: the test lets the node at max_depth fetch its children
descend_Inclusive(current_depth, max_depth) ==
  max_depth = Null \/ current_depth <= max_depth

\* if max_depth is None or current_depth < max_depth
descend(current_depth, max_depth) ==
  max_depth = Null \/ current_depth < max_depth

RECURSIVE build_tree_node(_, _, _, _, _, _, _)
build_tree_node(c, l, id, current_depth, max_depth, user, tie) ==
  LET children ==
        IF descend(current_depth, max_depth)
        THEN IF user # NoUser
             THEN filter_by_user_permissions(find_children_list(c, id, tie), user)
             ELSE find_children_list(c, id, tie)
        ELSE <<>>
  IN [id |-> id, name |-> c[id].name, slug |-> c[id].slug,
      item_count |-> c[id].item_count,
      total_item_count |-> total_item_count(l, id),
      depth |-> current_depth,
      children |-> [k \in 1..Len(children) |->
                      build_tree_node(c, l, children[k], current_depth + 1,
                                      max_depth, user, tie)]]

get_tree(c, l, root_id, max_depth, user, tie) ==
  LET roots == IF Truthy(root_id)
               THEN IF find_by_id(c, root_id) THEN <<root_id>> ELSE <<>>
               ELSE find_root_collections(c, tie)
      shown == SelectSeq(roots, LAMBDA r : user = NoUser
                                           \/ user_can_access_collection(user, r))
  IN [k \in 1..Len(shown) |-> build_tree_node(c, l, shown[k], 0, max_depth, user, tie)]

(* ------------------------- get_collection_items ----------------------- *)

\* no item_type argument
NoType == "None"

Min(a, b) == IF a <= b THEN a ELSE b

\* the item ids of the rows of the link table of item_type for collection_id, in
\* the order the store returns them (the query has no ORDER BY)
RECURSIVE link_rows_list(_, _)
link_rows_list(ids, tie) ==
  IF ids = {} THEN <<>>
  ELSE LET first == CHOOSE i \in ids :
                      \A j \in ids : IF tie = "asc" THEN i <= j ELSE i >= j
       IN <<first>> \o link_rows_list(ids \ {first}, tie)

links_of_type(l, collection_id, item_type, tie) ==
  link_rows_list({k[3] : k \in {x \in DOMAIN l : x[1] = collection_id
                                                /\ x[2] = item_type}}, tie)

\* if limit: query.limit(limit); if offset: query.offset(offset); query.all()
paginate(rows, limit, offset) ==
  LET rest == IF Truthy(offset) THEN SubSeq(rows, offset + 1, Len(rows)) ELSE rows
  IN IF Truthy(limit) THEN SubSeq(rest, 1, Min(limit, Len(rest))) ELSE rest

\* mutant: every bucket is filled whatever item_type is
bucket_requested_Always(item_type, bucket) == TRUE

\* if not item_type or item_type == CollectionItemType.<bucket>
bucket_requested(item_type, bucket) == item_type = NoType \/ item_type = bucket

\* one bucket: the page of links, without those whose item is gone
bucket_items(l, collection_id, item_type, bucket, limit, offset, tie) ==
  IF bucket_requested(item_type, bucket)
  THEN SelectSeq(paginate(links_of_type(l, collection_id, bucket, tie), limit, offset),
                 LAMBDA item : <<bucket, item>> \in Catalog)
  ELSE <<>>

NoItems == [dashboards |-> <<>>, charts |-> <<>>, datasets |-> <<>>, total_count |-> 0]

get_collection_items(c, l, collection_id, item_type, limit, offset, tie) ==
  IF ~find_by_id(c, collection_id) THEN [result |-> "NotFound", items |-> NoItems]
  ELSE
  LET dashboards == bucket_items(l, collection_id, item_type, "dashboard", limit, offset, tie)
      charts == bucket_items(l, collection_id, item_type, "chart", limit, offset, tie)
      datasets == bucket_items(l, collection_id, item_type, "dataset", limit, offset, tie)
  IN [result |-> "ok",
      items |-> [dashboards |-> dashboards, charts |-> charts, datasets |-> datasets,
                 total_count |-> Len(dashboards) + Len(charts) + Len(datasets)]]

(* ----------------------- SpCollectionPermission ----------------------- *)

\* a new instance: no attribute is set before the constructor's keyword loop
NewPermission == [can_view |-> Null, can_curate |-> Null]

\* setattr(self, key, value) through @validates("can_view", "can_curate"): the
\* validator may set can_view first, then the attribute takes the value returned
validate_permissions(p, key, value) ==
  LET p1 == IF key = "can_curate" /\ Truthy(value) /\ ~Truthy(p.can_view)
            THEN [p EXCEPT !.can_view = 1]
            ELSE p
  IN [p1 EXCEPT ![key] = value]

\* SpCollectionPermission(**kwargs): the keyword arguments are assigned in the
\* order the caller wrote them
RECURSIVE construct_permission(_, _)
construct_permission(p, kwargs) ==
  IF kwargs = <<>> THEN p
  ELSE construct_permission(validate_permissions(p, Head(kwargs)[1], Head(kwargs)[2]),
                            Tail(kwargs))

(* ------------------------- batch items (api.py) ----------------------- *)

\* add_items_schema.load / remove_items_schema.load: at least one item, each with
\* a known type and an id >= 1; an item is <<type, id>>
items_schema_valid(items) ==
  /\ Len(items) >= 1
  /\ \A k \in 1..Len(items) : items[k][1] \in CollectionItemType /\ items[k][2] >= 1

\* mutant: the first failing item ends the loop
batch_continue_StopAtError(errors) == errors = <<>>

\* the for loop goes on to the next item whatever happened to the earlier ones
batch_continue(errors) == TRUE

\* the loop of add_items from its k-th item on: every exception of the DAO call
\* is caught inside the loop and recorded
RECURSIVE add_items_loop(_, _, _, _, _, _, _)
add_items_loop(c, l, pk, items, k, added_count, errors) ==
  IF k > Len(items) \/ ~batch_continue(errors)
  THEN [count |-> added_count, errors |-> errors, cols |-> c, links |-> l]
  ELSE LET o == add_item_to_collection(c, l, pk, items[k][1], items[k][2])
       IN IF o.result = "ok"
          THEN add_items_loop(o.cols, o.links, pk, items, k + 1, added_count + 1, errors)
          ELSE add_items_loop(o.cols, o.links, pk, items, k + 1, added_count,
                              Append(errors, items[k]))

\* the loop of remove_items from its k-th item on
RECURSIVE remove_items_loop(_, _, _, _, _, _, _)
remove_items_loop(c, l, pk, items, k, removed_count, errors) ==
  IF k > Len(items) \/ ~batch_continue(errors)
  THEN [count |-> removed_count, errors |-> errors, cols |-> c, links |-> l]
  ELSE LET o == remove_item_from_collection(c, l, pk, items[k][1], items[k][2])
       IN IF o.result = "ok"
          THEN remove_items_loop(o.cols, o.links, pk, items, k + 1, removed_count + 1,
                                 errors)
          ELSE remove_items_loop(o.cols, o.links, pk, items, k + 1, removed_count,
                                 Append(errors, items[k]))

\* POST /<pk>/items: 400 for a body that fails the schema, else 200 with the
\* count and the errors; the outer handlers see no exception of the DAO
add_items(c, l, pk, items) ==
  IF ~items_schema_valid(items)
  THEN [status |-> 400, count |-> 0, errors |-> <<>>, cols |-> c, links |-> l]
  ELSE [status |-> 200] @@ add_items_loop(c, l, pk, items, 1, 0, <<>>)

\* DELETE /<pk>/items
remove_items(c, l, pk, items) ==
  IF ~items_schema_valid(items)
  THEN [status |-> 400, count |-> 0, errors |-> <<>>, cols |-> c, links |-> l]
  ELSE [status |-> 200] @@ remove_items_loop(c, l, pk, items, 1, 0, <<>>)

(* ------------------- SQL safety checks (llm_provider.py) -------------- *)

AsciiLower ==
  <<"a", "b", "c", "d", "e", "f", "g", "h", "i", "j", "k", "l", "m",
    "n", "o", "p", "q", "r", "s", "t", "u", "v", "w", "x", "y", "z">>

AsciiUpper ==
  <<"A", "B", "C", "D", "E", "F", "G", "H", "I", "J", "K", "L", "M",
    "N", "O", "P", "Q", "R", "S", "T", "U", "V", "W", "X", "Y", "Z">>

BANNED_SQL_PREFIXES ==
  << <<"D", "R", "O", "P", " ">>,
     <<"T", "R", "U", "N", "C", "A", "T", "E", " ">>,
     <<"D", "E", "L", "E", "T", "E", " ">>,
     <<"U", "P", "D", "A", "T", "E", " ">>,
     <<"A", "L", "T", "E", "R", " ">>,
     <<"I", "N", "S", "E", "R", "T", " ">>,
     <<"C", "R", "E", "A", "T", "E", " ">>,
     <<"G", "R", "A", "N", "T", " ">>,
     <<"R", "E", "V", "O", "K", "E", " ">> >>

\* the text returned for a response that is not a SELECT query
FallbackSql ==
  <<
    "-", "-", " ", "G", "e", "n", "e", "r", "a", "t", "e", "d", " ", "S",
    "Q", "L", " ", "w", "a", "s", " ", "n", "o", "t", " ", "a", " ", "S",
    "E", "L", "E", "C", "T", " ", "q", "u", "e", "r", "y", "\n", "S", "E",
    "L", "E", "C", "T", " ", "'", "P", "l", "e", "a", "s", "e", " ", "a",
    "s", "k", " ", "f", "o", "r", " ", "d", "a", "t", "a", " ", "r", "e",
    "t", "r", "i", "e", "v", "a", "l", " ", "q", "u", "e", "r", "i", "e",
    "s", " ", "o", "n", "l", "y", "'", " ", "A", "S", " ", "m", "e", "s",
    "s", "a", "g", "e", ";" >>

\* str.upper() on one character
UpperChar(ch) ==
  IF \E i \in 1..Len(AsciiLower) : AsciiLower[i] = ch
  THEN AsciiUpper[CHOOSE i \in 1..Len(AsciiLower) : AsciiLower[i] = ch]
  ELSE ch

Upper(s) == [i \in 1..Len(s) |-> UpperChar(s[i])]

\* str.startswith(prefix)
StartsWith(s, prefix) == Len(s) >= Len(prefix) /\ SubSeq(s, 1, Len(prefix)) = prefix

WhiteSpace == {" ", "\n", "\t"}

\* str.strip() on a response: every kind of leading and trailing whitespace goes
StripWs(s) ==
  LET keep == {i \in 1..Len(s) : s[i] \notin WhiteSpace}
  IN IF keep = {} THEN <<>>
     ELSE SubSeq(s, CHOOSE i \in keep : \A j \in keep : i <= j,
                    CHOOSE i \in keep : \A j \in keep : j <= i)

\* str.split("\n"): the pieces between the newlines, at least one piece
RECURSIVE SplitLines(_)
SplitLines(s) ==
  IF \A i \in 1..Len(s) : s[i] # "\n" THEN <<s>>
  ELSE LET n == CHOOSE i \in 1..Len(s) : s[i] = "\n" /\ \A j \in 1..(i - 1) : s[j] # "\n"
       IN <<SubSeq(s, 1, n - 1)>> \o SplitLines(SubSeq(s, n + 1, Len(s)))

\* "\n".join(lines)
RECURSIVE JoinLines(_)
JoinLines(lines) ==
  IF lines = <<>> THEN <<>>
  ELSE IF Len(lines) = 1 THEN lines[1]
  ELSE lines[1] \o <<"\n">> \o JoinLines(Tail(lines))

\* the grave accent, which a string of this language cannot hold
Backtick == "grave"

\* the three characters that open and close a Markdown code block
Fence == <<Backtick, Backtick, Backtick>>

\* lines 118-121: drop the line of the opening fence and, if the last line is a
\* fence, that line too
remove_markdown(sql) ==
  IF StartsWith(sql, Fence)
  THEN LET lines == SplitLines(sql)
           inner == IF StripWs(lines[Len(lines)]) = Fence
                    THEN SubSeq(lines, 2, Len(lines) - 1)
                    ELSE SubSeq(lines, 2, Len(lines))
       IN StripWs(JoinLines(inner))
  ELSE sql

\* mutant: no prefix is banned
banned_Never(sql_upper) == FALSE

\* lines 124-128: some banned prefix starts the upper-cased text
banned(sql_upper) ==
  \E i \in 1..Len(BANNED_SQL_PREFIXES) : StartsWith(sql_upper, BANNED_SQL_PREFIXES[i])

SELECT == <<"S", "E", "L", "E", "C", "T">>

apply_safety_checks(raw) ==
  LET sql == remove_markdown(StripWs(raw))
      sql_upper == Upper(sql)
  IN IF banned(sql_upper) THEN [result |-> "SQLSecurityError", out |-> <<>>]
     ELSE IF ~StartsWith(sql_upper, SELECT) THEN [result |-> "returned", out |-> FallbackSql]
     ELSE [result |-> "returned", out |-> sql]

(* ------------------------------ results ------------------------------- *)

\* the last call: its arguments, what delete_collection found, and its result
NoRes ==
  [op |-> "none", id |-> Null, slug |-> Unset, parent_id |-> Null,
   item_type |-> "none", item_id |-> Null, result |-> "none",
   children |-> {}, old_parent |-> Null, cascaded |-> 0,
   max_depth |-> Null, user |-> "None", tree |-> <<>>,
   name |-> Unset, description |-> Unset, is_official |-> Null,
   limit |-> Null, offset |-> Null, items |-> NoItems,
   status |-> 0, batch |-> <<>>, count |-> 0, errors |-> <<>>, before |-> <<>>]

\* no delete_collection call is in progress
NoTxn == [pc |-> "idle"]

\* mutant: the rollback leaves what the session had changed in the tables
session_rollback_Flushed(c, l, t) == [cols |-> t.cols, links |-> t.links]

\* db.session.rollback(): the session's pending changes t are dropped and the
\* committed tables c, l stay
session_rollback(c, l, t) == [cols |-> c, links |-> l]

\* no row in sp_collection_permission yet
NoPerm == <<>>

\* nothing has been sent through the SQL safety checks yet
NoLlm == [sql |-> <<>>, result |-> "none", out |-> <<>>]

(* ------------------------------ actions ------------------------------- *)

CreateCollection(name, slug, description, parent_id, is_official) ==
  /\ LET o == create_collection(cols, links, nextId, name, slug, description,
                                parent_id, is_official)
     IN /\ cols' = o.cols
        /\ nextId' = IF o.result = "ok" THEN nextId + 1 ELSE nextId
        /\ res' = [NoRes EXCEPT !.op = "create", !.id = nextId, !.slug = slug,
                                !.parent_id = parent_id, !.result = o.result]
  /\ UNCHANGED <<links, req, txn, perm, llm>>

UpdateCollection(id, name, slug, description, parent_id, is_official) ==
  /\ LET o == update_collection(cols, links, id, name, slug, description,
                                parent_id, is_official)
     IN /\ cols' = o.cols
        /\ res' = [NoRes EXCEPT !.op = "update", !.id = id, !.slug = slug,
                                !.parent_id = parent_id, !.result = o.result,
                                !.name = name, !.description = description,
                                !.is_official = is_official]
  /\ UNCHANGED <<links, nextId, req, txn, perm, llm>>

DeleteCollection(id) ==
  /\ LET o == delete_collection(cols, links, id)
     IN /\ cols' = o.cols
        /\ links' = o.links
        /\ res' = [NoRes EXCEPT !.op = "delete", !.id = id, !.result = o.result,
                                !.children = find_children(cols, id),
                                !.old_parent = IF find_by_id(cols, id)
                                               THEN cols[id].parent_id ELSE Null,
                                !.cascaded = total_item_count(links, id)]
  /\ UNCHANGED <<nextId, req, txn, perm, llm>>

AddItem(collection_id, item_type, item_id) ==
  /\ LET o == add_item_to_collection(cols, links, collection_id, item_type, item_id)
     IN /\ TotalLinks(o.links) <= MaxLinks
        /\ cols' = o.cols
        /\ links' = o.links
        /\ res' = [NoRes EXCEPT !.op = "add", !.id = collection_id,
                                !.item_type = item_type, !.item_id = item_id,
                                !.result = o.result]
  /\ UNCHANGED <<nextId, req, txn, perm, llm>>

RemoveItem(collection_id, item_type, item_id) ==
  /\ LET o == remove_item_from_collection(cols, links, collection_id, item_type,
                                          item_id)
     IN /\ cols' = o.cols
        /\ links' = o.links
        /\ res' = [NoRes EXCEPT !.op = "remove", !.id = collection_id,
                                !.item_type = item_type, !.item_id = item_id,
                                !.result = o.result]
  /\ UNCHANGED <<nextId, req, txn, perm, llm>>

\* get_tree reads the committed tables; the rows of equal name come in either order
GetTree(root_id, max_depth, user, tie) ==
  /\ res' = [NoRes EXCEPT !.op = "tree", !.id = root_id, !.max_depth = max_depth,
                          !.user = user,
                          !.tree = get_tree(cols, links, root_id, max_depth, user, tie)]
  /\ UNCHANGED <<cols, links, nextId, req, txn, perm, llm>>

\* the table as the calls of the scoped session see it: the committed rows with
\* the session's uncommitted assignments on top
SessionView(c, t) == IF t.pc = "dirty" THEN t.cols ELSE c

\* update_collection called in the scoped session the earlier calls used: its
\* commit writes whatever the session holds, its rollback drops it, and an
\* exception raised outside the try leaves the session as it is
SessionUpdate(id, name, slug, description, parent_id, is_official) ==
  /\ LET o == update_collection(SessionView(cols, txn), links, id, name, slug,
                                description, parent_id, is_official)
     IN /\ cols' = IF o.end = "commit" THEN o.cols ELSE cols
        /\ txn' = IF o.end = "dirty" THEN [pc |-> "dirty", cols |-> o.pending]
                  ELSE IF o.end = "none" THEN txn
                  ELSE NoTxn
        /\ res' = [NoRes EXCEPT !.op = "update", !.id = id, !.slug = slug,
                                !.parent_id = parent_id, !.result = o.result,
                                !.name = name, !.description = description,
                                !.is_official = is_official]
  /\ UNCHANGED <<links, nextId, req, perm, llm>>

\* get_collection_items reads the committed tables
GetItems(collection_id, item_type, limit, offset, tie) ==
  /\ LET o == get_collection_items(cols, links, collection_id, item_type, limit,
                                   offset, tie)
     IN res' = [NoRes EXCEPT !.op = "items", !.id = collection_id,
                             !.item_type = item_type, !.limit = limit,
                             !.offset = offset, !.result = o.result,
                             !.items = o.items]
  /\ UNCHANGED <<cols, links, nextId, req, txn, perm, llm>>

(* ---------------- create_collection, one statement at a time ---------- *)

\* request r runs line 174 against the committed table
RaceFindSlug(r) ==
  /\ req[r].pc = "find_slug"
  /\ LET o == create_find_slug(cols, req[r].slug)
     IN req' = [req EXCEPT ![r].pc = IF o = "pass" THEN "validate" ELSE "done",
                           ![r].at = "find_slug",
                           ![r].result = IF o = "pass" THEN "none" ELSE o]
  /\ UNCHANGED <<cols, links, nextId, res, txn, perm, llm>>

\* request r runs lines 177-195 against the committed table
RaceValidate(r) ==
  /\ req[r].pc = "validate"
  /\ LET o == create_validate(cols, <<"n">>, req[r].slug, Unset, req[r].parent_id)
     IN req' = [req EXCEPT ![r].pc = IF o = "pass" THEN "commit" ELSE "done",
                           ![r].at = "validate",
                           ![r].result = IF o = "pass" THEN "none" ELSE o]
  /\ UNCHANGED <<cols, links, nextId, res, txn, perm, llm>>

\* request r runs lines 197-206: the commit, or the rollback and the error
RaceCommit(r) ==
  /\ req[r].pc = "commit"
  /\ LET o == create_commit(cols, links, nextId, <<"n">>, req[r].slug, Unset,
                            req[r].parent_id, 0)
     IN /\ cols' = o.cols
        /\ nextId' = IF o.result = "ok" THEN nextId + 1 ELSE nextId
        /\ req' = [req EXCEPT ![r].pc = "done", ![r].at = "commit",
                              ![r].result = o.result]
  /\ UNCHANGED <<links, res, txn, perm, llm>>

(* ---------------- delete_collection, one statement at a time ---------- *)

\* lines 270-272: the look-up; the session starts from the committed tables
DeleteFind(id) ==
  /\ txn = NoTxn
  /\ IF ~find_by_id(cols, id)
     THEN /\ res' = [NoRes EXCEPT !.op = "delete", !.id = id, !.result = "False"]
          /\ txn' = txn
     ELSE /\ txn' = [pc |-> "children", id |-> id, cols |-> cols, links |-> links,
                     todo |-> {}, moved |-> {},
                     start |-> [cols |-> cols, links |-> links]]
          /\ res' = NoRes
  /\ UNCHANGED <<cols, links, nextId, req, perm, llm>>

\* line 276: children = cls.find_children(collection_id)
DeleteFindChildren ==
  /\ txn.pc = "children"
  /\ txn' = [txn EXCEPT !.pc = "loop", !.todo = find_children(txn.cols, txn.id)]
  /\ UNCHANGED <<cols, links, nextId, res, req, perm, llm>>

\* lines 277-278: one turn of the loop, in the session
DeleteReparentChild ==
  /\ txn.pc = "loop"
  /\ \E ch \in txn.todo :
       IF validate_parent_id(ch, txn.cols[txn.id].parent_id).ok
       THEN /\ txn' = [txn EXCEPT !.cols = Reparent(txn.cols, txn.id, {ch}),
                                  !.todo = @ \ {ch}, !.moved = @ \cup {ch}]
            /\ UNCHANGED <<cols, links, res>>
       ELSE LET o == session_rollback(cols, links, txn)
            IN /\ cols' = o.cols
               /\ links' = o.links
               /\ txn' = NoTxn
               /\ res' = [NoRes EXCEPT !.op = "delete", !.id = txn.id,
                                       !.result = "ValueError",
                                       !.children = txn.moved]
  /\ UNCHANGED <<nextId, req, perm, llm>>

\* line 281: db.session.delete(collection), with the cascade to its links
DeleteSessionDelete ==
  /\ txn.pc = "loop"
  /\ txn.todo = {}
  /\ txn' = [txn EXCEPT !.pc = "commit", !.cols = DeleteRow(txn.cols, txn.id),
                        !.links = CascadeLinks(txn.links, txn.id)]
  /\ UNCHANGED <<cols, links, nextId, res, req, perm, llm>>

\* line 282: db.session.commit()
DeleteCommit ==
  /\ txn.pc = "commit"
  /\ LET flushed == Deassociate(txn.cols, cols, txn.id)
         good == Constraints(flushed, txn.links)
         o == IF good THEN [cols |-> flushed, links |-> txn.links]
              ELSE session_rollback(cols, links, txn)
     IN /\ cols' = o.cols
        /\ links' = o.links
        /\ res' = [NoRes EXCEPT !.op = "delete", !.id = txn.id,
                                !.result = IF good THEN "True" ELSE "IntegrityError",
                                !.children = txn.moved,
                                !.old_parent = txn.start.cols[txn.id].parent_id,
                                !.cascaded = total_item_count(txn.start.links, txn.id)]
  /\ txn' = NoTxn
  /\ UNCHANGED <<nextId, req, perm, llm>>

\* lines 286-289: a statement inside the try raises (the database connection is
\* lost, a lock wait times out); rollback, and the exception goes to the caller
DeleteRaise ==
  /\ txn.pc \in {"children", "loop", "commit"}
  /\ LET o == session_rollback(cols, links, txn)
     IN /\ cols' = o.cols
        /\ links' = o.links
  /\ res' = [NoRes EXCEPT !.op = "delete", !.id = txn.id, !.result = "Error",
                          !.children = txn.moved]
  /\ txn' = NoTxn
  /\ UNCHANGED <<nextId, req, perm, llm>>

(* ------------------------------ inputs -------------------------------- *)

NameInputs == {<<" ", "n">>, <<>>}

SlugLetters == {<<Letter[i]>> : i \in 1..MaxSlugCols}

RawSlugs ==
  SlugLetters \cup {<<>>, <<" ">>, <<"a", "!">>, <<"A">>, <<" ", "b">>}

DescriptionInputs == {Unset, <<"long">>}

\* item ids: 1 is in the catalog, 2 is not
ItemIdInputs == {1, 2}

(* --------------------------- specifications --------------------------- *)

Init ==
  /\ cols = <<>>
  /\ links = <<>>
  /\ nextId = 1
  /\ res = NoRes
  /\ req = <<>>
  /\ txn = NoTxn
  /\ perm = NoPerm
  /\ llm = NoLlm

\* the repository operations on the tree; parent 0 and ids not (or no longer)
\* in the table are among the arguments
Next ==
  \/ /\ nextId <= MaxId
     /\ \E parent_id \in {Null} \cup (0..MaxId) :
          CreateCollection(<<"n">>, <<Letter[nextId]>>, Unset, parent_id, 0)
  \/ \E id \in 1..MaxId, slug \in {Unset, <<"a">>}, parent_id \in {Null} \cup (0..MaxId) :
       UpdateCollection(id, Unset, slug, Unset, parent_id, Null)
  \/ \E id \in 1..MaxId : DeleteCollection(id)

Spec == Init /\ [][Next]_vars

\* the repository operations on names and slugs as the caller writes them
NextSlug ==
  \/ /\ nextId <= MaxSlugCols
     /\ \E name \in NameInputs, slug \in RawSlugs, description \in DescriptionInputs,
           parent_id \in {Null} \cup (0..MaxSlugCols) :
          CreateCollection(name, slug, description, parent_id, 0)
  \/ \E id \in 1..MaxSlugCols, slug \in RawSlugs :
       UpdateCollection(id, Unset, slug, Unset, Null, Null)
  \/ \E id \in 1..MaxSlugCols : DeleteCollection(id)

SpecSlug == Init /\ [][NextSlug]_vars

\* the membership operations, on collections created with one slug per id
NextItems ==
  \/ /\ nextId <= MaxItemCols
     /\ \E parent_id \in {Null} \cup (0..MaxItemCols) :
          CreateCollection(<<"n">>, <<Letter[nextId]>>, Unset, parent_id, 0)
  \/ \E id \in 1..MaxItemCols : DeleteCollection(id)
  \/ \E id \in 1..MaxItemCols, t \in CollectionItemType, item \in ItemIdInputs :
       AddItem(id, t, item)
  \/ \E id \in 1..MaxItemCols, t \in CollectionItemType, item \in ItemIdInputs :
       RemoveItem(id, t, item)

SpecItems == Init /\ [][NextItems]_vars

\* the slugs the racing requests send: "a" and "A" are one slug once normalised
RaceSlugs == {<<"a">>, <<"A">>, <<"c">>, <<"a", "!">>}

\* the table before the race: one root collection with slug "c"
RaceCols == create_collection(<<>>, <<>>, 1, <<"n">>, <<"c">>, Unset, Null, 0).cols

InitRace ==
  /\ cols = RaceCols
  /\ links = <<>>
  /\ nextId = 2
  /\ res = NoRes
  /\ txn = NoTxn
  /\ req \in [1..NumRequests ->
               [pc : {"find_slug"}, at : {"none"}, slug : RaceSlugs,
                parent_id : {Null, 1}, result : {"none"}]]
  /\ perm = NoPerm
  /\ llm = NoLlm

\* concurrent create_collection calls, each in its own session, interleaved
\* statement by statement
NextRace ==
  \/ \E r \in 1..NumRequests : RaceFindSlug(r)
  \/ \E r \in 1..NumRequests : RaceValidate(r)
  \/ \E r \in 1..NumRequests : RaceCommit(r)

SpecRace == InitRace /\ [][NextRace]_vars

\* following parent_id upward from id ends at a null parent, no id seen twice
RECURSIVE ReachesRoot(_, _, _)
ReachesRoot(c, id, seen) ==
  IF id = Null THEN TRUE
  ELSE IF id \in seen \/ id \notin Ids(c) THEN FALSE
  ELSE ReachesRoot(c, c[id].parent_id, seen \cup {id})

\* the tables create, update and addItem calls can build: a forest over
\* MaxDeleteCols collections, each with or without a dashboard link
DeleteStores ==
  LET N == 1..MaxDeleteCols
      Table(f, g) ==
        [i \in N |-> [NewRow(<<"n">>, <<Letter[i]>>, Unset, f[i], 0)
                        EXCEPT !.item_count = IF g[i] THEN 1 ELSE 0]]
      Links(g) == [k \in {<<i, "dashboard", 1>> : i \in {j \in N : g[j]}} |-> 1]
  IN {[cols |-> Table(f, g), links |-> Links(g)] :
        <<f, g>> \in {p \in [N -> {Null} \cup N] \X [N -> BOOLEAN] :
                        \A i \in N : ReachesRoot(Table(p[1], p[2]), i, {})}}

InitDelete ==
  /\ \E s \in DeleteStores : cols = s.cols /\ links = s.links
  /\ nextId = MaxDeleteCols + 1
  /\ res = NoRes
  /\ req = <<>>
  /\ txn = NoTxn
  /\ perm = NoPerm
  /\ llm = NoLlm

\* delete_collection calls one after another, each statement a step, any
\* statement inside the try able to raise
NextDelete ==
  \/ \E id \in 1..MaxDeleteCols : DeleteFind(id)
  \/ DeleteFindChildren
  \/ DeleteReparentChild
  \/ DeleteSessionDelete
  \/ DeleteCommit
  \/ DeleteRaise

SpecDelete == InitDelete /\ [][NextDelete]_vars

\* names whose order is the same under every collation
TreeNames == {<<"a">>, <<"b">>}

UserInputs == {NoUser, "u"}

\* root_id: absent, the falsy 0, a collection with children, a later collection
RootIdInputs == {Null, 0, 1, 2}

\* max_depth: absent, or a limit that cuts the forest at that level
DepthInputs == {Null, 0, 1, 2}

\* creates that build every forest shape, and tree reads with every argument
NextTree ==
  \/ /\ nextId <= MaxTreeCols
     /\ \E name \in TreeNames, parent_id \in {Null} \cup (1..MaxTreeCols) :
          CreateCollection(name, <<Letter[nextId]>>, Unset, parent_id, 0)
  \/ \E root_id \in RootIdInputs, max_depth \in DepthInputs,
        user \in UserInputs, tie \in TieOrders :
       GetTree(root_id, max_depth, user, tie)

SpecTree == Init /\ [][NextTree]_vars

\* a slug of two letters for collection id
DeepSlug(id) ==
  <<Letter[((id - 1) \div Len(Letter)) + 1], Letter[((id - 1) % Len(Letter)) + 1]>>

\* creates that put each new collection at the root or under the one created
\* before it, and tree reads with no limit or a limit above MAX_TREE_DEPTH
NextDeep ==
  \/ /\ nextId <= MaxDeepCols
     /\ \E parent_id \in {Null, nextId - 1} :
          CreateCollection(<<"a">>, DeepSlug(nextId), Unset, parent_id, 0)
  \/ \E root_id \in {Null, 2}, max_depth \in {Null, MAX_TREE_DEPTH, MAX_TREE_DEPTH + 1} :
       GetTree(root_id, max_depth, NoUser, "asc")

SpecDeep == Init /\ [][NextDeep]_vars

\* the tables before the session's calls: collection 1 with a dashboard link,
\* collection 2 a root or a child of 1
SessionStore(parent_id) ==
  LET one == create_collection(<<>>, <<>>, 1, <<"a">>, <<"a">>, Unset, Null, 0).cols
      two == create_collection(one, <<>>, 2, <<"a">>, <<"b">>, Unset, parent_id, 0).cols
  IN add_item_to_collection(two, <<>>, 1, "dashboard", 1)

InitSession ==
  /\ \E parent_id \in {Null, 1} :
       /\ cols = SessionStore(parent_id).cols
       /\ links = SessionStore(parent_id).links
  /\ nextId = 3
  /\ res = NoRes
  /\ req = <<>>
  /\ txn = NoTxn
  /\ perm = NoPerm
  /\ llm = NoLlm

\* updates one after another in one scoped session, with valid and invalid
\* slugs, of collection 1 and of a collection that does not exist
NextSession ==
  \E id \in {1, 3}, name \in {Unset, <<" ", "b">>},
     slug \in {Unset, <<"C">>, <<"a", "!">>}, description \in {Unset, <<"d">>},
     parent_id \in {Null, 2}, is_official \in {Null, 1} :
    SessionUpdate(id, name, slug, description, parent_id, is_official)

SpecSession == InitSession /\ [][NextSession]_vars

\* one collection, links to the catalog items 1 and 42 added and removed, and
\* reads of it and of a collection that does not exist
NextGetItems ==
  \/ /\ nextId = 1
     /\ CreateCollection(<<"n">>, <<"a">>, Unset, Null, 0)
  \/ \E t \in CollectionItemType, item \in {1, 42} : AddItem(1, t, item)
  \/ \E t \in CollectionItemType, item \in {1, 42} : RemoveItem(1, t, item)
  \/ \E id \in {1, 2}, t \in CollectionItemType \cup {NoType},
        limit \in {Null, 0, 1, 2}, offset \in {Null, 0, 1}, tie \in TieOrders :
       GetItems(id, t, limit, offset, tie)

SpecGetItems == Init /\ [][NextGetItems]_vars

(* ---------------------- permission records ---------------------------- *)

\* db.session.add(SpCollectionPermission(role_id=..., **kwargs))
PermissionNew(role_id, kwargs) ==
  /\ role_id \notin DOMAIN perm
  /\ perm' = [r \in DOMAIN perm \cup {role_id} |->
                IF r = role_id THEN construct_permission(NewPermission, kwargs)
                ELSE perm[r]]
  /\ UNCHANGED <<cols, links, nextId, res, req, txn, llm>>

\* permission.<key> = value on a record of the session
PermissionSet(role_id, key, value) ==
  /\ role_id \in DOMAIN perm
  /\ perm' = [perm EXCEPT ![role_id] = validate_permissions(@, key, value)]
  /\ UNCHANGED <<cols, links, nextId, res, req, txn, llm>>

PermissionKeys == {"can_view", "can_curate"}

\* keyword arguments of the constructor: each flag at most once, in either order
PermissionKwargs ==
  {<<>>} \cup {<<<<k, v>>>> : k \in PermissionKeys, v \in {0, 1}}
         \cup {<<<<k1, v1>>, <<k2, v2>>>> :
                 <<k1, k2>> \in {<<"can_view", "can_curate">>, <<"can_curate", "can_view">>},
                 v1 \in {0, 1}, v2 \in {0, 1}}

\* permission records of one collection, one per role, built and then assigned to
NextPermission ==
  \/ \E role_id \in 1..MaxRoles, kwargs \in PermissionKwargs :
       PermissionNew(role_id, kwargs)
  \/ \E role_id \in 1..MaxRoles, key \in PermissionKeys, value \in {0, 1} :
       PermissionSet(role_id, key, value)

SpecPermission == Init /\ [][NextPermission]_vars

(* --------------------------- batch requests --------------------------- *)

AddItems(pk, items) ==
  /\ LET o == add_items(cols, links, pk, items)
     IN /\ cols' = o.cols
        /\ links' = o.links
        /\ res' = [NoRes EXCEPT !.op = "add_items", !.id = pk, !.batch = items,
                                !.status = o.status, !.count = o.count,
                                !.errors = o.errors]
  /\ UNCHANGED <<nextId, req, txn, perm, llm>>

RemoveItems(pk, items) ==
  /\ LET o == remove_items(cols, links, pk, items)
     IN /\ cols' = o.cols
        /\ links' = o.links
        /\ res' = [NoRes EXCEPT !.op = "remove_items", !.id = pk, !.batch = items,
                                !.status = o.status, !.count = o.count,
                                !.errors = o.errors]
  /\ UNCHANGED <<nextId, req, txn, perm, llm>>

\* the items of a request body: linkable ones (id 1), ones whose id names no
\* dashboard or chart (id 2) and ones the schema rejects (id 0)
BatchItems == ({"dashboard"} \X {0, 1, 2}) \cup {<<"chart", 1>>}

RECURSIVE SeqsUpTo(_, _)
SeqsUpTo(S, n) ==
  IF n = 0 THEN {<<>>}
  ELSE LET shorter == SeqsUpTo(S, n - 1)
       IN shorter \cup {Append(q, x) : q \in shorter, x \in S}

\* batch requests to collection 1 and to an id that names no collection
NextBatch ==
  \/ /\ nextId <= 1
     /\ CreateCollection(<<"n">>, <<"a">>, Unset, Null, 0)
  \/ \E pk \in {1, 2}, items \in SeqsUpTo(BatchItems, MaxBatch) : AddItems(pk, items)
  \/ \E pk \in {1, 2}, items \in SeqsUpTo(BatchItems, MaxBatch) : RemoveItems(pk, items)

SpecBatch == Init /\ [][NextBatch]_vars

(* ------------------------ generated SQL responses --------------------- *)

\* generate_sql from the response of _call_llm on: safe_sql or the exception
ApplySafetyChecks ==
  /\ llm.result = "none"
  /\ llm' = [sql |-> llm.sql] @@ apply_safety_checks(llm.sql)
  /\ UNCHANGED <<cols, links, nextId, res, req, txn, perm>>

\* first words of a response: the banned statements, a statement that is neither
\* banned nor a query, queries in three spellings, and nothing
FirstWords ==
  {SubSeq(BANNED_SQL_PREFIXES[i], 1, Len(BANNED_SQL_PREFIXES[i]) - 1) :
     i \in 1..Len(BANNED_SQL_PREFIXES)}
  \cup {<<"d", "r", "o", "p">>, <<"S", "H", "O", "W">>, SELECT,
        <<"s", "e", "l", "e", "c", "t">>, <<"S", "e", "l", "e", "c", "t">>, <<>>}

\* responses of the model: a first word, what follows it, optional surrounding
\* whitespace and an optional Markdown fence, closed or left open
SqlResponses ==
  {lead \o open \o word \o sep \o rest \o close \o trail :
     lead \in {<<>>, <<" ">>},
     open \in {<<>>, Fence \o <<"s", "q", "l", "\n">>},
     word \in FirstWords,
     sep \in {<<>>, <<" ">>, <<"\n">>, <<"\t">>},
     rest \in {<<>>, <<"x">>},
     close \in {<<>>, <<"\n">> \o Fence},
     trail \in {<<>>, <<"\n">>}}

\* _call_llm has returned one of the responses
InitSql ==
  /\ cols = <<>>
  /\ links = <<>>
  /\ nextId = 1
  /\ res = NoRes
  /\ req = <<>>
  /\ txn = NoTxn
  /\ perm = NoPerm
  /\ llm \in {[NoLlm EXCEPT !.sql = sql] : sql \in SqlResponses}

NextSql == ApplySafetyChecks

SpecSql == InitSql /\ [][NextSql]_vars

(* ------------- has_cycle_with_parent, one iteration at a time --------- *)

\* lines 195-200: the self test, then current_id and visited are set up
WalkEnter ==
  /\ req.pc = "enter"
  /\ req' = IF req.potential_parent_id = req.self
            THEN [req EXCEPT !.pc = "done", !.result = TRUE]
            ELSE [req EXCEPT !.pc = "loop", !.current_id = req.potential_parent_id]
  /\ UNCHANGED <<cols, links, nextId, res, txn, perm, llm>>

\* lines 202-215: the loop test and one turn of the loop; lookups records the
\* find_by_id calls
WalkStep ==
  /\ req.pc = "loop"
  /\ req' = IF ~Truthy(req.current_id)
            THEN [req EXCEPT !.pc = "done", !.result = FALSE]
            ELSE IF walk_revisited(req.current_id, req.visited)
            THEN [req EXCEPT !.pc = "done", !.result = TRUE]
            ELSE IF req.current_id = req.self
            THEN [req EXCEPT !.pc = "done", !.result = TRUE]
            ELSE [req EXCEPT !.visited = @ \cup {req.current_id},
                             !.lookups = Append(@, req.current_id),
                             !.current_id = IF find_by_id(cols, req.current_id)
                                            THEN cols[req.current_id].parent_id
                                            ELSE Null]
  /\ UNCHANGED <<cols, links, nextId, res, txn, perm, llm>>

\* every table over MaxWalkCols collections, whatever its parent pointers: the
\* foreign key admits cycles, which only the DAO's checks keep out
WalkStores ==
  LET N == 1..MaxWalkCols
  IN {[i \in N |-> NewRow(<<"n">>, <<Letter[i]>>, Unset, f[i], 0)] :
        f \in [N -> {Null} \cup N]}

\* a call on a stored collection, or on a new one that has no id yet, with a
\* candidate parent that may be 0 or name no collection
InitWalk ==
  /\ cols \in WalkStores
  /\ links = <<>>
  /\ nextId = MaxWalkCols + 1
  /\ res = NoRes
  /\ txn = NoTxn
  /\ perm = NoPerm
  /\ llm = NoLlm
  /\ req \in [pc : {"enter"}, self : {Null} \cup (1..MaxWalkCols),
              potential_parent_id : 0..(MaxWalkCols + 1), current_id : {Null},
              visited : {{}}, lookups : {<<>>}, result : {FALSE}]

NextWalk == WalkEnter \/ WalkStep

\* the call runs on: its thread is not starved
SpecWalk == InitWalk /\ [][NextWalk]_vars /\ WF_vars(NextWalk)

(* ------------------------- counter recomputation ---------------------- *)

UpdateItemCounts(collection_id) ==
  /\ cols' = update_item_counts(cols, links, collection_id)
  /\ res' = [NoRes EXCEPT !.op = "update_item_counts", !.id = collection_id,
                          !.before = cols]
  /\ UNCHANGED <<links, nextId, req, txn, perm, llm>>

\* forests over MaxCountCols collections with up to two links each and with
\* counters that match the links or not, as requests that ran side by side on
\* one collection can leave them
CountStores ==
  LET N == 1..MaxCountCols
      Table(f, n) ==
        [i \in N |-> [NewRow(<<"n">>, <<Letter[i]>>, Unset, f[i], 0)
                        EXCEPT !.item_count = n[i]]]
      Items == <<<<"dashboard", 1>>, <<"chart", 1>>>>
      Links(g) == [k \in {<<q[1], Items[q[2]][1], Items[q[2]][2]>> :
                            q \in {r \in N \X (1..2) : r[2] <= g[r[1]]}}
                     |-> 1]
  IN {[cols |-> Table(f, n), links |-> Links(g)] :
        <<f, n, g>> \in {p \in [N -> {Null} \cup N] \X [N -> 0..2] \X [N -> 0..2] :
                           \A i \in N : ReachesRoot(Table(p[1], p[2]), i, {})}}

InitCounts ==
  /\ \E s \in CountStores : cols = s.cols /\ links = s.links
  /\ nextId = MaxCountCols + 1
  /\ res = NoRes
  /\ req = <<>>
  /\ txn = NoTxn
  /\ perm = NoPerm
  /\ llm = NoLlm

\* recomputations of stored collections and of an id that names none
NextCounts == \E id \in 1..(MaxCountCols + 1) : UpdateItemCounts(id)

SpecCounts == InitCounts /\ [][NextCounts]_vars

(* ------- add_item_to_collection / remove_item_from_collection --------- *)
(* ------- in concurrent sessions, one statement group at a time -------- *)

\* lines 315-317 / 394-396: request r loads the collection row into its session;
\* the row stays in the session's identity map until the commit
ItemRaceFind(r) ==
  /\ req[r].pc = "find"
  /\ req' = IF ~find_by_id(cols, req[r].id)
            THEN [req EXCEPT ![r].pc = "done", ![r].result = "NotFound"]
            ELSE [req EXCEPT ![r].pc = "check", ![r].loaded = cols]
  /\ UNCHANGED <<cols, links, nextId, res, txn, perm, llm>>

\* lines 320-323 / 398-428: the query for the link, against the committed rows
ItemRaceCheck(r) ==
  /\ req[r].pc = "check"
  /\ LET here == item_exists_in_collection(links, req[r].id, req[r].item[1],
                                           req[r].item[2])
         found == link_query(links, req[r].id, req[r].item[1], req[r].item[2]) # {}
     IN req' = IF req[r].op = "add"
               THEN IF here
                    THEN [req EXCEPT ![r].pc = "done", ![r].result = "ItemAlreadyExists"]
                    ELSE [req EXCEPT ![r].pc = "commit"]
               ELSE IF ~found
                    THEN [req EXCEPT ![r].pc = "done", ![r].result = "ItemNotFound"]
                    ELSE [req EXCEPT ![r].pc = "commit"]
  /\ UNCHANGED <<cols, links, nextId, res, txn, perm, llm>>

\* the UPDATE the flush sends: item_count takes the value the session computed
\* from the row it loaded
write_item_count(c, id, row) == [c EXCEPT ![id].item_count = row.item_count]

\* lines 349-355 / 431-437: the link row and the counter are flushed and
\* committed; the counter comes from the row as the session loaded it
ItemRaceCommit(r) ==
  /\ req[r].pc = "commit"
  /\ LET id == req[r].id
         key == <<id, req[r].item[1], req[r].item[2]>>
         afterL == IF req[r].op = "add" THEN AddLink(links, key) ELSE DelLink(links, key)
         row == IF req[r].op = "add" THEN BumpCount(req[r].loaded, id)[id]
                ELSE DropCount(req[r].loaded, id)[id]
         fails == \/ ~find_by_id(cols, id)
                  \/ req[r].op = "remove" /\ LinkRows(links, key) = 0
                  \/ ~Constraints(write_item_count(cols, id, row), afterL)
     IN IF fails
        \* the flush raises (IntegrityError, StaleDataError): rollback
        THEN /\ req' = [req EXCEPT ![r].pc = "done", ![r].result = "Error"]
             /\ UNCHANGED <<cols, links>>
        ELSE /\ cols' = write_item_count(cols, id, row)
             /\ links' = afterL
             /\ req' = [req EXCEPT ![r].pc = "done", ![r].result = "ok"]
  /\ UNCHANGED <<nextId, res, txn, perm, llm>>

\* the items the racing requests name: two that can be linked, one that is
\* linked already
RaceItems == {<<"dashboard", 1>>, <<"dashboard", 42>>, <<"chart", 1>>}

\* collection 1 with one link, <<"chart", 1>>, and item_count 1
ItemRaceStore ==
  LET one == create_collection(<<>>, <<>>, 1, <<"n">>, <<"a">>, Unset, Null, 0).cols
  IN add_item_to_collection(one, <<>>, 1, "chart", 1)

InitItemRace ==
  /\ cols = ItemRaceStore.cols
  /\ links = ItemRaceStore.links
  /\ nextId = 2
  /\ res = NoRes
  /\ txn = NoTxn
  /\ perm = NoPerm
  /\ llm = NoLlm
  /\ req \in [1..NumRequests ->
               [pc : {"find"}, op : {"add", "remove"}, id : {1}, item : RaceItems,
                loaded : {<<>>}, result : {"none"}]]

\* concurrent add and remove requests on collection 1, each in its own session
NextItemRace ==
  \/ \E r \in 1..NumRequests : ItemRaceFind(r)
  \/ \E r \in 1..NumRequests : ItemRaceCheck(r)
  \/ \E r \in 1..NumRequests : ItemRaceCommit(r)

SpecItemRace == InitItemRace /\ [][NextItemRace]_vars

(* ------- update_collection moves in concurrent sessions --------------- *)

\* lines 220-222: request r loads the collection into its session
MoveRaceFind(r) ==
  /\ req[r].pc = "find"
  /\ req' = IF ~find_by_id(cols, req[r].id)
            THEN [req EXCEPT ![r].pc = "done", ![r].result = "NotFound"]
            ELSE [req EXCEPT ![r].pc = "check", ![r].loaded = cols[req[r].id]]
  /\ UNCHANGED <<cols, links, nextId, res, txn, perm, llm>>

\* lines 231-234: the cycle check walks the rows committed so far
MoveRaceCheck(r) ==
  /\ req[r].pc = "check"
  /\ req' = IF /\ req[r].parent_id # req[r].loaded.parent_id
               /\ Truthy(req[r].parent_id)
               /\ ~can_be_moved_to(cols, req[r].id, req[r].parent_id)
            THEN [req EXCEPT ![r].pc = "done", ![r].result = "CycleDetected"]
            ELSE [req EXCEPT ![r].pc = "commit"]
  /\ UNCHANGED <<cols, links, nextId, res, txn, perm, llm>>

\* lines 242-257: the assignment and the commit; the UPDATE sets parent_id alone
MoveRaceCommit(r) ==
  /\ req[r].pc = "commit"
  /\ LET after == [cols EXCEPT ![req[r].id].parent_id = req[r].parent_id]
     IN IF ~validate_parent_id(req[r].id, req[r].parent_id).ok
        THEN /\ req' = [req EXCEPT ![r].pc = "done", ![r].result = "ValueError"]
             /\ cols' = cols
        ELSE IF ~find_by_id(cols, req[r].id) \/ ~Constraints(after, links)
        THEN /\ req' = [req EXCEPT ![r].pc = "done", ![r].result = "IntegrityError"]
             /\ cols' = cols
        ELSE /\ req' = [req EXCEPT ![r].pc = "done", ![r].result = "ok"]
             /\ cols' = after
  /\ UNCHANGED <<links, nextId, res, txn, perm, llm>>

\* three root collections
MoveRaceStore ==
  LET one == create_collection(<<>>, <<>>, 1, <<"n">>, <<"a">>, Unset, Null, 0).cols
      two == create_collection(one, <<>>, 2, <<"n">>, <<"b">>, Unset, Null, 0).cols
  IN create_collection(two, <<>>, 3, <<"n">>, <<"c">>, Unset, Null, 0).cols

InitMoveRace ==
  /\ cols = MoveRaceStore
  /\ links = <<>>
  /\ nextId = 4
  /\ res = NoRes
  /\ txn = NoTxn
  /\ perm = NoPerm
  /\ llm = NoLlm
  /\ req \in [1..NumRequests ->
               [pc : {"find"}, id : 1..3, parent_id : 1..3,
                loaded : {<<>>}, result : {"none"}]]

\* concurrent update_collection calls that supply a parent, each in its own
\* session
NextMoveRace ==
  \/ \E r \in 1..NumRequests : MoveRaceFind(r)
  \/ \E r \in 1..NumRequests : MoveRaceCheck(r)
  \/ \E r \in 1..NumRequests : MoveRaceCommit(r)

SpecMoveRace == InitMoveRace /\ [][NextMoveRace]_vars

(* ------------------------------- claims ------------------------------- *)

\* the ids on the parent chain above id
RECURSIVE AncestorsOf(_, _, _)
AncestorsOf(c, id, seen) ==
  IF id \notin Ids(c) \/ c[id].parent_id = Null \/ c[id].parent_id \in seen THEN seen
  ELSE AncestorsOf(c, c[id].parent_id, seen \cup {c[id].parent_id})

DescendantsOf(c, id) == {d \in Ids(c) : d # id /\ id \in AncestorsOf(c, d, {})}

\* C1: after any sequence of create, update and delete calls, the parent chain of
\* every collection reaches a null parent without repeating an id, and no
\* collection is its own parent.
C1_ParentChainsAcyclic ==
  \A i \in Ids(cols) : cols[i].parent_id # i /\ ReachesRoot(cols, i, {})

\* an update has just moved a collection and a chain of three collections exists
C1_Witness ==
  /\ res.op = "update" /\ res.result = "ok" /\ Truthy(res.parent_id)
  /\ \E i \in Ids(cols) :
       /\ cols[i].parent_id # Null
       /\ cols[cols[i].parent_id].parent_id # Null

\* C2: an update of an existing collection c that supplies only parentId = p, with
\* p equal to c or a descendant of c, fails with CycleDetected and leaves every
\* collection as it was.
C2_CycleRejectedUnchanged ==
  [][(/\ res'.op = "update"
      /\ res'.slug = Unset
      /\ res'.id \in Ids(cols)
      /\ res'.parent_id \in {res'.id} \cup DescendantsOf(cols, res'.id))
     => (res'.result = "CycleDetected" /\ cols' = cols)]_vars

\* an update to a grandchild of the collection has just been rejected
C2_Witness ==
  /\ res.op = "update" /\ res.result = "CycleDetected" /\ res.slug = Unset
  /\ res.parent_id \in DescendantsOf(cols, res.id)
  /\ cols[res.parent_id].parent_id # res.id

\* C4: when create calls race with one slug once normalised, valid and not in the
\* table before, and with arguments otherwise valid, then once all have returned
\* exactly one has succeeded, every other has failed with SlugExists, and one
\* row holds the slug; no state holds two rows with one slug.
C4_ExactlyOneCreates ==
  /\ UniqueSlug(cols)
  /\ \A r \in DOMAIN req :
       LET v == validate_slug(req[r].slug)
           same == {q \in DOMAIN req : validate_slug(req[q].slug) = v}
       IN (/\ v.ok
           /\ find_by_slug(RaceCols, v.val) = {}
           /\ Cardinality(same) >= 2
           /\ \A q \in same : req[q].pc = "done")
          => /\ Cardinality({q \in same : req[q].result = "ok"}) = 1
             /\ \A q \in same : req[q].result \in {"ok", "SlugExists"}
             /\ Cardinality(find_by_slug(cols, v.val)) = 1

\* two requests with slugs "a" and "A" both passed the look-up; one committed
\* and the other's commit failed with SlugExists
C4_Witness ==
  \E r, q \in DOMAIN req :
    /\ req[r].slug = <<"a">> /\ req[q].slug = <<"A">>
    /\ req[r].pc = "done" /\ req[q].pc = "done"
    /\ req[r].at = "commit" /\ req[q].at = "commit"
    /\ {req[r].result, req[q].result} = {"ok", "SlugExists"}

\* C5: a successful delete of id, whose parent is p, leaves every former direct
\* child of id with parent_id = p, and no collection with parent_id = id.  (The
\* flush clears the parent_id the loop assigned, so this fails when p is not null.)
C5_ChildrenPromoted ==
  [][(res'.op = "delete" /\ res'.result = "True")
     => /\ \A ch \in Ids(cols) :
             cols[ch].parent_id = res'.id
             => ch \in Ids(cols') /\ cols'[ch].parent_id = cols[res'.id].parent_id
        /\ \A i \in Ids(cols') : cols'[i].parent_id # res'.id]_vars

\* C3: a create whose slug, trimmed and lower-cased, is the slug of an existing
\* collection never succeeds and adds no collection; with a valid name and
\* description and a parent that is absent or exists it fails with SlugExists.
C3_NormalisedSlugExists ==
  \A name \in NameInputs, slug \in RawSlugs, description \in DescriptionInputs,
     parent_id \in {Null} \cup (0..MaxSlugCols) :
    LET v == validate_slug(slug)
        o == create_collection(cols, links, nextId, name, slug, description,
                               parent_id, 0)
    IN (v.ok /\ \E e \in Ids(cols) : cols[e].slug = v.val)
       => /\ o.result # "ok"
          /\ o.cols = cols
          /\ (/\ validate_name(name).ok
              /\ validate_description(description).ok
              /\ (Truthy(parent_id) => parent_id \in Ids(cols)))
             => o.result = "SlugExists"

\* a create with slug "A" has just failed with SlugExists against the stored "a"
C3_Witness ==
  /\ res.op = "create" /\ res.result = "SlugExists"
  /\ res.slug = <<"A">>
  /\ \E e \in Ids(cols) : cols[e].slug = <<"a">>
  /\ find_by_slug(cols, res.slug) = {}

\* C6: a successful delete of id removes the row id and the item links of id and
\* nothing else: every other collection, the descendants of id among them, still
\* exists, and the links of every other collection are as they were.
C6_DeleteRemovesOnlyTarget ==
  [][(res'.op = "delete" /\ res'.result = "True")
     => /\ Ids(cols') = Ids(cols) \ {res'.id}
        /\ res'.id \in Ids(cols)
        /\ \A k \in DOMAIN links' : k[1] # res'.id
        /\ \A k \in (DOMAIN links \cup DOMAIN links') :
             k[1] # res'.id => LinkRows(links', k) = LinkRows(links, k)]_vars

\* a collection with a child and a link has just been deleted while another
\* collection holds a link
C6_Witness ==
  /\ res.op = "delete" /\ res.result = "True"
  /\ res.children # {} /\ res.children \subseteq Ids(cols)
  /\ res.cascaded > 0
  /\ DOMAIN links # {}

\* C7: a delete that fails after it began re-parenting children leaves the
\* collections and the links as they were before the call, with nothing of the
\* call pending.
C7_FailedDeleteUnchanged ==
  [][(/\ res'.op = "delete"
      /\ res'.result \in {"Error", "ValueError", "IntegrityError"})
     => /\ cols' = txn.start.cols
        /\ links' = txn.start.links
        /\ txn' = NoTxn]_vars

\* a delete has just failed after it re-parented a child in its session; the
\* child is still under the collection, which still exists with its link
C7_Witness ==
  /\ res.op = "delete" /\ res.result = "Error"
  /\ res.children # {}
  /\ res.id \in Ids(cols)
  /\ \A ch \in res.children : cols[ch].parent_id = res.id
  /\ total_item_count(links, res.id) > 0

\* C8: after any sequence of create, addItem, removeItem and delete calls, the
\* item_count of every collection is the number of link rows that reference it.
C8_ItemCountMatchesLinks ==
  \A i \in Ids(cols) : cols[i].item_count = total_item_count(links, i)

\* a link has just been removed from a collection that still holds one
C8_Witness ==
  /\ res.op = "remove" /\ res.result = "ok"
  /\ cols[res.id].item_count = 1
  /\ total_item_count(links, res.id) = 1

\* C9: addItem on an existing collection and catalog item succeeds when the triple
\* is not linked, adding one link row and 1 to item_count, and fails with
\* ItemAlreadyExists, changing nothing, when it is linked: two adds in a row leave
\* one link and item_count one higher.
C9_AddTwice ==
  [][(/\ res'.op = "add"
      /\ res'.id \in Ids(cols)
      /\ <<res'.item_type, res'.item_id>> \in Catalog)
     => LET k == <<res'.id, res'.item_type, res'.item_id>>
        IN IF LinkRows(links, k) = 0
           THEN /\ res'.result = "ok"
                /\ LinkRows(links', k) = 1
                /\ cols'[res'.id].item_count = cols[res'.id].item_count + 1
           ELSE /\ res'.result = "ItemAlreadyExists"
                /\ LinkRows(links', k) = 1
                /\ cols' = cols /\ links' = links]_vars

\* the second add of a triple has just failed; one link row is there and the
\* count is 1
C9_Witness ==
  /\ res.op = "add" /\ res.result = "ItemAlreadyExists"
  /\ LinkRows(links, <<res.id, res.item_type, res.item_id>>) = 1
  /\ cols[res.id].item_count = 1

\* C10: removeItem on an existing collection with no link for (type, itemId) fails
\* with ItemNotFound and leaves item_count and the links as they were, also when
\* the same itemId is linked under another type.
C10_RemoveUnlinked ==
  [][(/\ res'.op = "remove"
      /\ res'.id \in Ids(cols)
      /\ LinkRows(links, <<res'.id, res'.item_type, res'.item_id>>) = 0)
     => (res'.result = "ItemNotFound" /\ cols' = cols /\ links' = links)]_vars

\* a remove has just failed while the same item id is linked under another type
C10_Witness ==
  /\ res.op = "remove" /\ res.result = "ItemNotFound"
  /\ \E t \in CollectionItemType \ {res.item_type} :
       LinkRows(links, <<res.id, t, res.item_id>>) = 1

\* C11: a successful removeItem deletes the one named link row and nothing else,
\* sets the collection's item_count to max(0, previous - 1) and leaves every other
\* collection as it was; no step leaves a negative item_count.
C11_RemoveDecrements ==
  [][/\ \A i \in Ids(cols') : cols'[i].item_count >= 0
     /\ (res'.op = "remove" /\ res'.result = "ok")
        => LET k == <<res'.id, res'.item_type, res'.item_id>>
           IN /\ LinkRows(links, k) = 1 /\ LinkRows(links', k) = 0
              /\ \A j \in (DOMAIN links \cup DOMAIN links') \ {k} :
                   LinkRows(links', j) = LinkRows(links, j)
              /\ cols'[res'.id].item_count = Max(0, cols[res'.id].item_count - 1)
              /\ Ids(cols') = Ids(cols)
              /\ \A i \in Ids(cols) \ {res'.id} : cols'[i] = cols[i]]_vars

\* a link has just been removed while the same collection keeps a link of
\* another type and its count went to 1
C11_Witness ==
  /\ res.op = "remove" /\ res.result = "ok"
  /\ LinkRows(links, <<res.id, res.item_type, res.item_id>>) = 0
  /\ \E t \in CollectionItemType \ {res.item_type} :
       LinkRows(links, <<res.id, t, res.item_id>>) = 1
  /\ cols[res.id].item_count = 1

\* the nodes of a get_tree result, flattened in pre-order
RECURSIVE Flatten(_)
Flatten(nodes) ==
  IF nodes = <<>> THEN <<>>
  ELSE <<[id |-> nodes[1].id, depth |-> nodes[1].depth, name |-> nodes[1].name,
          kids |-> Len(nodes[1].children)]>>
       \o Flatten(nodes[1].children) \o Flatten(Tail(nodes))

\* C12: a get_tree call with max_depth = d >= 0 returns no node deeper than d, and
\* every returned node at depth d has no children; with d = 0 only top-level
\* nodes come back, each childless.
C12_DepthBounded ==
  (res.op = "tree" /\ res.max_depth # Null)
  => LET flat == Flatten(res.tree)
     IN /\ \A k \in 1..Len(flat) :
             /\ flat[k].depth <= res.max_depth
             /\ flat[k].depth = res.max_depth => flat[k].kids = 0
        /\ res.max_depth = 0 => Len(flat) = Len(res.tree)

\* a read with max_depth 1 returned a node at depth 1 whose own child was cut off
C12_Witness ==
  /\ res.op = "tree" /\ res.max_depth # Null
  /\ \E k \in 1..Len(Flatten(res.tree)) :
       LET e == Flatten(res.tree)[k]
       IN /\ e.depth = res.max_depth /\ e.depth = 1
          /\ find_children(cols, e.id) # {}

\* the nodes list is the children of parent, each once, at the given depth, and
\* so on below each node
RECURSIVE ExactForest(_, _, _, _)
ExactForest(c, nodes, parent, depth) ==
  /\ {nodes[k].id : k \in 1..Len(nodes)} = find_children(c, parent)
  /\ Len(nodes) = Cardinality(find_children(c, parent))
  /\ \A k \in 1..Len(nodes) :
       /\ nodes[k].depth = depth
       /\ ExactForest(c, nodes[k].children, nodes[k].id, depth + 1)

\* C13: get_tree with no root_id, no user and no max_depth returns one top-level
\* node per collection with a null parent, at depth 0; the children of every node
\* are the collections whose parent_id is the node's id, at the node's depth + 1;
\* every stored collection appears once.
C13_WholeForest ==
  (res.op = "tree" /\ res.id = Null /\ res.user = NoUser /\ res.max_depth = Null)
  => LET flat == Flatten(res.tree)
     IN /\ ExactForest(cols, res.tree, Null, 0)
        /\ \A i \in Ids(cols) :
             Cardinality({k \in 1..Len(flat) : flat[k].id = i}) = 1
        /\ Len(flat) = Cardinality(Ids(cols))

\* an unlimited read of a forest with two roots, one of which has a child
C13_Witness ==
  /\ res.op = "tree" /\ res.id = Null /\ res.user = NoUser /\ res.max_depth = Null
  /\ Len(res.tree) = 2
  /\ \E k \in 1..Len(res.tree) : Len(res.tree[k].children) = 1

\* the names along a list of nodes never decrease, at this level and below
RECURSIVE NamesAscending(_)
NamesAscending(nodes) ==
  /\ \A k \in 1..(Len(nodes) - 1) : ~NameLess(nodes[k + 1].name, nodes[k].name)
  /\ \A k \in 1..Len(nodes) : NamesAscending(nodes[k].children)

\* C14: in every get_tree result the top-level nodes and the children list of
\* every node are in ascending order of name.
C14_OrderedByName ==
  res.op = "tree" => NamesAscending(res.tree)

\* a read returned a node whose two children have different names, the one
\* created later first
C14_Witness ==
  /\ res.op = "tree"
  /\ \E k \in 1..Len(res.tree) :
       LET ch == res.tree[k].children
       IN /\ Len(ch) = 2
          /\ NameLess(ch[1].name, ch[2].name)
          /\ ch[1].id > ch[2].id

\* C15: get_tree returns for every table and every combination of arguments, and
\* no node it returns has a depth above the hard ceiling MAX_TREE_DEPTH.  Stated
\* here for the reads that return: no returned node is deeper than MAX_TREE_DEPTH.
C15_DepthCeiling ==
  res.op = "tree"
  => \A k \in 1..Len(Flatten(res.tree)) : Flatten(res.tree)[k].depth <= MAX_TREE_DEPTH

\* C17: an update called with parentId = null on a collection that has a parent
\* never fails with CycleDetected, and when it succeeds the collection's
\* parent_id is null.
C17_MoveToRoot ==
  [][(/\ res'.op = "update"
      /\ res'.parent_id = Null
      /\ res'.id \in Ids(cols)
      /\ cols[res'.id].parent_id # Null)
     => /\ res'.result # "CycleDetected"
        /\ res'.result = "ok" => cols'[res'.id].parent_id = Null]_vars

\* C18: a successful update changes, in the table the call reads and writes, only
\* the fields supplied among name, slug, description, parent and is_official,
\* each to its validated value: every field not supplied keeps its value, as do
\* item_count, every other collection and every item link.
C18_UpdateFrame ==
  [][(res'.op = "update" /\ res'.result = "ok")
     => LET before == SessionView(cols, txn)
            after == SessionView(cols', txn')
            id == res'.id
        IN /\ Ids(after) = Ids(before)
           /\ \A i \in Ids(before) \ {id} : after[i] = before[i]
           /\ links' = links
           /\ after[id].item_count = before[id].item_count
           /\ after[id].name = IF res'.name = Unset THEN before[id].name
                               ELSE Strip(res'.name)
           /\ after[id].slug = IF res'.slug = Unset THEN before[id].slug
                               ELSE Lower(Strip(res'.slug))
           /\ after[id].description = IF res'.description = Unset
                                      THEN before[id].description
                                      ELSE res'.description
           /\ after[id].parent_id = IF res'.parent_id = Null
                                    THEN before[id].parent_id ELSE res'.parent_id
           /\ after[id].is_official = IF res'.is_official = Null
                                      THEN before[id].is_official
                                      ELSE res'.is_official]_vars

\* an update supplying only a name has just succeeded on the collection that
\* has a link, an earlier description and an earlier is_official
C18_Witness ==
  /\ res.op = "update" /\ res.result = "ok"
  /\ res.name # Unset /\ res.slug = Unset /\ res.description = Unset
  /\ res.parent_id = Null /\ res.is_official = Null
  /\ cols[res.id].name = <<"b">>
  /\ cols[res.id].description = <<"d">>
  /\ cols[res.id].is_official = 1
  /\ cols[res.id].item_count = 1

\* C19: whenever an update fails, none of the supplied fields has been changed on
\* the collection, in the committed table or in the table later calls see: a
\* valid new name supplied with an invalid slug leaves the name as it was.
C19_FailedUpdateUnchanged ==
  [][(res'.op = "update" /\ res'.result # "ok")
     => /\ cols' = cols
        /\ SessionView(cols', txn') = SessionView(cols, txn)]_vars

\* links of collection id in the table of item type t
LinkedCount(l, id, t) == Cardinality({k \in DOMAIN l : k[1] = id /\ k[2] = t})

\* rows a page holds: after the offset, at most limit (absent or 0: no limit)
PageSize(n, limit, offset) ==
  LET avail == IF Truthy(offset) THEN Max(0, n - offset) ELSE n
  IN IF Truthy(limit) THEN Min(limit, avail) ELSE avail

\* the bucket is a page of the links of type t: distinct linked items, as many as
\* limit and offset leave of that type alone, or nothing when another type was asked
BucketIsPage(bucket, t) ==
  /\ \A k \in 1..Len(bucket) : LinkRows(links, <<res.id, t, bucket[k]>>) = 1
  /\ Cardinality({bucket[k] : k \in 1..Len(bucket)}) = Len(bucket)
  /\ Len(bucket) = IF res.item_type \in {NoType, t}
                   THEN PageSize(LinkedCount(links, res.id, t), res.limit, res.offset)
                   ELSE 0

\* C20: get_collection_items on an existing collection pages each of the three
\* buckets on its own (a limit or offset of 0 counts as absent), fills only the
\* bucket of item_type when one is given, and returns total_count = the sum of
\* the sizes of the buckets returned; when the only link is (dashboard, 42) a read
\* without arguments returns that one dashboard and total_count 1.
C20_ItemsPerBucket ==
  (res.op = "items" /\ res.id \in Ids(cols))
  => /\ res.result = "ok"
     /\ BucketIsPage(res.items.dashboards, "dashboard")
     /\ BucketIsPage(res.items.charts, "chart")
     /\ BucketIsPage(res.items.datasets, "dataset")
     /\ res.items.total_count = Len(res.items.dashboards) + Len(res.items.charts)
                                + Len(res.items.datasets)
     /\ (/\ DOMAIN links = {<<res.id, "dashboard", 42>>}
         /\ res.item_type = NoType /\ res.limit = Null /\ res.offset = Null)
        => /\ res.items.dashboards = <<42>>
           /\ res.items.total_count = 1

\* a read with limit 1 and no item type of a collection with a dashboard and a
\* chart returned one entry in each bucket, total_count 2
C20_Witness ==
  /\ res.op = "items" /\ res.result = "ok"
  /\ res.item_type = NoType /\ res.limit = 1
  /\ Len(res.items.dashboards) = 1 /\ Len(res.items.charts) = 1
  /\ res.items.total_count = 2

\* C21: on every permission record, after construction and after any sequence
\* of assignments to can_view and can_curate, can_curate = true implies
\* can_view = true.
C21_CurateImpliesView ==
  \A r \in DOMAIN perm : Truthy(perm[r].can_curate) => Truthy(perm[r].can_view)

\* the items of the batch that are first at their position: not written earlier
\* in the same request
FirstInBatch(items, k) == \A j \in 1..(k - 1) : items[j] # items[k]

\* the links a batch add creates, item by item: the item exists in the catalog,
\* was not linked before the request and is not a repetition inside it
AddSucceeds(l, pk, items) ==
  {k \in 1..Len(items) : /\ <<items[k][1], items[k][2]>> \in Catalog
                         /\ LinkRows(l, <<pk, items[k][1], items[k][2]>>) = 0
                         /\ FirstInBatch(items, k)}

\* the links a batch remove deletes: linked before the request, not a repetition
RemoveSucceeds(l, pk, items) ==
  {k \in 1..Len(items) : /\ LinkRows(l, <<pk, items[k][1], items[k][2]>>) > 0
                         /\ FirstInBatch(items, k)}

\* the request touched exactly the links of the items at positions S (d = 1 for
\* an add, d = -1 for a remove), counted them and recorded every other item
BatchOutcome(S, d) ==
  LET items == res'.batch
      touched == {<<res'.id, items[k][1], items[k][2]>> : k \in S}
      failed == {k \in 1..Len(items) : k \notin S}
  IN /\ res'.status = 200
     /\ res'.count = Cardinality(S)
     /\ Len(res'.errors) = Cardinality(failed)
     /\ \A k \in failed : \E e \in 1..Len(res'.errors) : res'.errors[e] = items[k]
     /\ \A key \in DOMAIN links \cup DOMAIN links' \cup touched :
          LinkRows(links', key) = LinkRows(links, key) + (IF key \in touched THEN d ELSE 0)
     /\ cols'[res'.id].item_count = Max(0, cols[res'.id].item_count + d * Cardinality(S))

\* C22: a batch add (remove) of k valid items on an existing collection attempts
\* every item whatever happened to the earlier ones: the links created (removed)
\* are exactly those of the items that succeed on their own, the reported count
\* is their number and every other item has one recorded error.
C22_BatchBestEffort ==
  [][(/\ res'.op \in {"add_items", "remove_items"}
      /\ res'.id \in Ids(cols)
      /\ items_schema_valid(res'.batch))
     => IF res'.op = "add_items"
        THEN BatchOutcome(AddSucceeds(links, res'.id, res'.batch), 1)
        ELSE BatchOutcome(RemoveSucceeds(links, res'.id, res'.batch), -1)]_vars

\* a batch add whose first item failed and whose second item was linked
C22_Witness ==
  /\ res.op = "add_items" /\ res.id \in Ids(cols) /\ res.status = 200
  /\ Len(res.batch) = 2 /\ res.count = 1
  /\ res.errors = <<res.batch[1]>>
  /\ LinkRows(links, <<res.id, res.batch[2][1], res.batch[2][2]>>) = 1

\* C23: a valid batch add or remove request addressed to a collection id that
\* does not exist is answered with 404 and creates or removes no link.
C23_BatchNotFound ==
  (/\ res.op \in {"add_items", "remove_items"}
   /\ res.id \notin Ids(cols)
   /\ items_schema_valid(res.batch))
  => res.status = 404

\* a character that continues a word
WordChar(ch) ==
  \/ \E i \in 1..Len(AsciiLower) : ch \in {AsciiLower[i], AsciiUpper[i]}
  \/ ch \in {"0", "1", "_"}

\* text begins with the word kw, in any case: kw and then no word character
BeginsWithWord(text, kw) ==
  /\ StartsWith(Upper(text), kw)
  /\ Len(text) = Len(kw) \/ ~WordChar(text[Len(kw) + 1])

DestructiveKeywords ==
  {StripWs(BANNED_SQL_PREFIXES[i]) : i \in 1..Len(BANNED_SQL_PREFIXES)}

\* C24: every string _apply_safety_checks returns starts with SELECT in any case
\* or is the fixed fallback message; a response whose text begins with a
\* destructive keyword raises SQLSecurityError; a plain SELECT statement is
\* returned unchanged.
C24_SafetyChecks ==
  llm.result # "none"
  => /\ llm.result = "returned"
        => (StartsWith(Upper(llm.out), SELECT) \/ llm.out = FallbackSql)
     /\ (\E kw \in DestructiveKeywords : BeginsWithWord(StripWs(llm.sql), kw))
        => llm.result = "SQLSecurityError"
     /\ (BeginsWithWord(llm.sql, SELECT) /\ StripWs(llm.sql) = llm.sql)
        => (llm.result = "returned" /\ llm.out = llm.sql)

\* the text the checks look at: trimmed, without its Markdown fence
Cleaned(sql) == remove_markdown(StripWs(sql))

\* C24 as the code has it: what is returned is the cleaned text, starting with
\* SELECT in any case, or else the fallback message; SQLSecurityError is raised
\* exactly when the cleaned text begins with a destructive keyword and a space,
\* so a keyword followed by a newline, a tab or nothing gets the fallback
\* message; a plain SELECT statement is returned unchanged.
C24_SafetyChecksAmended ==
  llm.result # "none"
  => /\ llm.result = "returned"
        => \/ llm.out = Cleaned(llm.sql) /\ StartsWith(Upper(llm.out), SELECT)
           \/ llm.out = FallbackSql
     /\ llm.result = "SQLSecurityError"
        <=> \E kw \in DestructiveKeywords :
              StartsWith(Upper(Cleaned(llm.sql)), kw \o <<" ">>)
     /\ (\E kw \in DestructiveKeywords : BeginsWithWord(Cleaned(llm.sql), kw))
        => (llm.result = "SQLSecurityError" \/ llm.out = FallbackSql)
     /\ (BeginsWithWord(llm.sql, SELECT) /\ StripWs(llm.sql) = llm.sql)
        => (llm.result = "returned" /\ llm.out = llm.sql)

\* a fenced response in lower case that begins with "drop " was refused
C24_Witness ==
  /\ llm.result = "SQLSecurityError"
  /\ StartsWith(StripWs(llm.sql), Fence)
  /\ StartsWith(Cleaned(llm.sql), <<"d", "r", "o", "p", " ">>)

\* the walk so far looked no collection up twice, and only collections above
\* the candidate parent
WalkLookupsDistinct ==
  /\ Cardinality({req.lookups[k] : k \in 1..Len(req.lookups)}) = Len(req.lookups)
  /\ \A k \in 1..Len(req.lookups) :
       req.lookups[k] \in {req.potential_parent_id}
                          \cup AncestorsOf(cols, req.potential_parent_id, {})

\* the parent chain of the candidate parent runs into a cycle that does not
\* hold the collection being validated
AncestorCycleWithoutSelf ==
  /\ req.potential_parent_id \in Ids(cols)
  /\ ~ReachesRoot(cols, req.potential_parent_id, {})
  /\ req.self \notin {req.potential_parent_id}
                     \cup AncestorsOf(cols, req.potential_parent_id, {})

\* C25: on every table, cyclic ones included, has_cycle_with_parent(p) ends; it
\* looks each collection of the chain up at most once, and it returns true when
\* the ancestors of p form a cycle that does not hold the validated collection.
C25_WalkTerminates ==
  /\ <>(req.pc = "done")
  /\ [](WalkLookupsDistinct
        /\ (req.pc = "done"
            => /\ req.result = has_cycle_with_parent(cols, req.self, req.potential_parent_id)
               /\ AncestorCycleWithoutSelf => req.result = TRUE))

\* a finished call that went round a cycle of two collections above the
\* candidate parent, the validated collection outside it
C25_Witness ==
  /\ req.pc = "done" /\ req.result = TRUE
  /\ AncestorCycleWithoutSelf
  /\ Len(req.lookups) = 3

\* C26: on the tables the operations build, has_cycle_with_parent(p) on an
\* existing collection c, p existing, is true exactly when p = c or c is an
\* ancestor of p; so an update of c to a parent p that is neither c nor a
\* descendant of c is never rejected with CycleDetected, and when it supplies the
\* parent only it succeeds and sets c's parent_id to p.
C26_CycleCheckExact ==
  /\ [](\A c \in Ids(cols), p \in Ids(cols) :
          has_cycle_with_parent(cols, c, p)
          <=> (p = c \/ c \in AncestorsOf(cols, p, {})))
  /\ [][(/\ res'.op = "update"
         /\ res'.id \in Ids(cols)
         /\ res'.parent_id \in Ids(cols)
         /\ res'.parent_id \notin {res'.id} \cup DescendantsOf(cols, res'.id))
        => /\ res'.result # "CycleDetected"
           /\ res'.slug = Unset
              => (res'.result = "ok" /\ cols'[res'.id].parent_id = res'.parent_id)]_vars

\* a collection has just been moved from one parent to another one that has a
\* parent of its own
C26_Witness ==
  /\ res.op = "update" /\ res.result = "ok" /\ res.slug = Unset
  /\ res.parent_id \in Ids(cols)
  /\ cols[res.id].parent_id = res.parent_id
  /\ cols[res.parent_id].parent_id \in Ids(cols)
  /\ Cardinality(Ids(cols)) = 3

\* the links that reference collection id, counted from the link rows
LinksOf(l, id) == Cardinality({k \in DOMAIN l : k[1] = id /\ l[k] > 0})

\* rows keep everything but item_count, and the link rows stay
OnlyCountsChange ==
  /\ Ids(cols') = Ids(cols)
  /\ \A i \in Ids(cols) : [cols'[i] EXCEPT !.item_count = 0]
                          = [cols[i] EXCEPT !.item_count = 0]
  /\ links' = links

\* C27: update_item_counts(c) sets c's item_count to the number of links that
\* reference c and repeats on c's parent only if that value changed; it changes
\* no parent pointer and no link, and does nothing when c does not exist.
C27_RecomputeIfChanged ==
  [][res'.op = "update_item_counts"
     => IF res'.id \notin Ids(cols) THEN cols' = cols /\ links' = links
        ELSE /\ OnlyCountsChange
             /\ cols'[res'.id].item_count = LinksOf(links, res'.id)
             /\ cols[res'.id].item_count = LinksOf(links, res'.id) => cols' = cols]_vars

\* C27 as the code has it: update_item_counts(c) sets the item_count of c and of
\* every ancestor of c to the number of links that reference it, whether or not
\* c's own value changed; no other row, no parent pointer and no link changes,
\* and nothing changes when c does not exist.
C27_RecomputeChain ==
  [][res'.op = "update_item_counts"
     => IF res'.id \notin Ids(cols) THEN cols' = cols /\ links' = links
        ELSE /\ OnlyCountsChange
             /\ \A i \in Ids(cols) :
                  cols'[i].item_count =
                    IF i \in {res'.id} \cup AncestorsOf(cols, res'.id, {})
                    THEN LinksOf(links, i)
                    ELSE cols[i].item_count]_vars

\* a recomputation of a collection whose counter was right has corrected the
\* counter of its parent
C27_Witness ==
  /\ res.op = "update_item_counts" /\ res.id \in Ids(cols)
  /\ res.before[res.id].item_count = cols[res.id].item_count
  /\ Truthy(cols[res.id].parent_id)
  /\ res.before[cols[res.id].parent_id].item_count
       # cols[cols[res.id].parent_id].item_count
  /\ cols[cols[res.id].parent_id].item_count = LinksOf(links, cols[res.id].parent_id)

\* C28: when concurrent add and remove requests for different items of one
\* collection have all committed successfully, the collection's item_count
\* equals the number of links that reference it.
C28_NoLostUpdate ==
  (/\ \A r \in DOMAIN req : req[r].pc = "done" /\ req[r].result = "ok"
   /\ \A r1, r2 \in DOMAIN req : r1 # r2 => req[r1].item # req[r2].item)
  => \A i \in Ids(cols) : cols[i].item_count = LinksOf(links, i)

\* C29: when concurrent updates that change parents on an acyclic table have
\* all finished, the table is still acyclic: of two moves that together would
\* form a cycle at most one has succeeded.
C29_ConcurrentMovesAcyclic ==
  (\A r \in DOMAIN req : req[r].pc = "done")
  => \A i \in Ids(cols) : ReachesRoot(cols, i, {})

\* C30: in every state create, update and delete calls reach, every non-null
\* parent_id is the id of a stored collection: a create or an update whose
\* parent_id names no stored collection, 0 included, does not succeed and
\* changes nothing, and a delete leaves no collection pointing at the deleted id.
C30_ParentsExist ==
  /\ [](\A i \in Ids(cols) : cols[i].parent_id # Null => cols[i].parent_id \in Ids(cols))
  /\ [][/\ (/\ res'.op \in {"create", "update"}
            /\ res'.parent_id # Null
            /\ res'.parent_id \notin Ids(cols))
           => (res'.result # "ok" /\ cols' = cols)
        /\ (res'.op = "delete" /\ res'.result = "True")
           => (/\ res'.id \notin Ids(cols')
               /\ \A i \in Ids(cols') : cols'[i].parent_id # res'.id)]_vars

\* with collections stored, a create with parent_id 0 has just been refused
C30_Witness ==
  /\ res.op = "create" /\ res.parent_id = 0 /\ res.result # "ok"
  /\ Cardinality(Ids(cols)) >= 2
  /\ res.id \notin Ids(cols)

====
